---- MODULE Spec2Model ----
(***************************************************************************)
(* A model of the ros_like_system publish/subscribe middleware:            *)
(*   src/src/core/ros_core.py     NetworkAddress, Message, NetworkNode     *)
(*   src/src/nodes/master_node.py Master (registry, discovery, relay)      *)
(*   src/src/nodes/node.py        Node (register, publish, subscribe)      *)
(*                                                                         *)
(* Every process runs one asyncio event loop.  A handler runs atomically   *)
(* up to its next await; the model interleaves tasks at the awaits of the  *)
(* Master's sending loops (handle_subscriber_registration and              *)
(* distribute_message), where the code iterates over a registry list that  *)
(* other handlers may extend in the meantime.  A TCP connection is a FIFO  *)
(* queue of frames.                                                        *)
(***************************************************************************)
EXTENDS Integers, Sequences, FiniteSets, TLC

VARIABLES
    \* ---- Master (master_node.py:9-15)
    nodes,          \* Master.nodes: node_name -> NetworkAddress (a dict: dynamic domain)
    publishers,     \* Master.publishers: topic -> list of <<node_name, address>>
    subscribers,    \* Master.subscribers: topic -> list of <<node_name, address>>
    mclients,       \* Master.network.clients: keys (address strings) of cached writers
    mtask,          \* per inbound connection / command task: where its handler is suspended
    command_queue,  \* Master.command_queue
    \* ---- Nodes (node.py:8-19)
    phase,          \* per node: "init" (constructed), "started" (server up), "exited"
    registered,     \* Node.registered (asyncio.Event)
    nsubscribers,   \* Node.subscribers: the topics that have a callback
    npublishers,    \* Node.publishers
    publisher_connections,  \* Node.publisher_connections: topic -> subscriber names (writers)
    subscriber_connections, \* Node.subscriber_connections: topic -> publisher address string
    nclients,       \* Node.network.clients: keys of cached writers
    \* ---- connections
    toMaster,       \* frames written by a node on its connection to the Master
    toNode,         \* frames written by the Master on its connection to a node
    direct,         \* frames written by subscriber s on the connection it opened to p
    unread,         \* frames written by p on that same connection, towards s
    \* ---- application and operator inputs still to come
    budget,
    \* ---- history (not program state)
    constructed,    \* the identity of every Message instance constructed
    callbacks,      \* per node: the messages passed to application callbacks, in order
    owed,           \* <<uid, node>>: the Master started relaying uid while node had an entry
    known,          \* per node: data messages published before the node started
    directSent,     \* <<uid, subscriber>>: published while the direct handshake was complete
    promised,       \* <<uid, node>>: published while node had an entry for the topic
    disclosed,      \* per subscription handled by the Master: what it was sent
    \* ---- NetworkNode.connect_to run on its own (ros_core.py:176-196)
    conn,
    \* ---- Node.register_with_master run on its own (node.py:92-118)
    reg,
    \* ---- NetworkNode.send_message run on its own (ros_core.py:198-221)
    snd,
    \* ---- Node.publish and Node.subscribe, task by task (node.py:21-54, 147-165)
    api,
    \* ---- the receivers: byte by byte, and frame by frame (ros_core.py:89-98, 141-174)
    rd,
    \* ---- NetworkNode.stop run on its own (ros_core.py:223-234)
    stp

vars == <<nodes, publishers, subscribers, mclients, mtask, command_queue,
          phase, registered, nsubscribers, npublishers, publisher_connections,
          subscriber_connections, nclients, toMaster, toNode, direct, unread,
          budget, constructed, callbacks, owed, known, directSent,
          promised, disclosed, conn, reg, snd, api, rd, stp>>

masterVars == <<nodes, publishers, subscribers, mclients, mtask, command_queue>>
nodeVars == <<phase, registered, nsubscribers, npublishers, publisher_connections,
              subscriber_connections, nclients>>
netVars == <<toMaster, toNode, direct, unread>>
histVars == <<constructed, callbacks, owed, known, directSent, promised, disclosed>>
protoVars == <<masterVars, nodeVars, netVars, budget, histVars>>
unitVars == <<snd, api, rd, stp>>

----------------------------------------------------------------------------
\* Names, topics, addresses

Names == {"A", "B", "C"}
MasterName == "master"
ShellConn == "shell"
Conns == Names \cup {ShellConn}

\* The topics Node.handle_message and Master.handle_message compare against.
ControlTopics == {"__registration__", "__registration_confirm__",
                  "__publisher_registration__", "__subscriber_registration__",
                  "__publisher_info__", "__subscribe__"}

\* The topic names applications and the shell use in this model: one ordinary
\* topic and one reserved name.
Topics == {"temp", "__registration__"}

\* The payloads applications publish.
Payloads == {[v |-> 42]}

NetworkAddress(host, port) == [host |-> host, port |-> port]

\* NetworkAddress.__str__: "host:port", kept as the pair that split(':') recovers.
AddrStr(a) == <<a.host, a.port>>

\* NetworkAddress.from_string
from_string(s) == NetworkAddress(s[1], s[2])

MasterPort == 11511
MasterAddress == NetworkAddress("localhost", MasterPort)

\* The port each node's server is bound to (assigned by the OS in the code).
PortOf(n) == CASE n = "A" -> 5001 [] n = "B" -> 5002 [] OTHER -> 5003
NodeAddress(n) == NetworkAddress("localhost", PortOf(n))

\* The uuid4 drawn once per process when the Message class is defined: the
\* default of the dataclass field is evaluated at class definition, not per
\* instance (ros_core.py:67).
DefaultMessageId(proc) == <<"uuid4", proc>>

\* The identity of a Message instance (history only, never compared by the
\* program): the process that constructs it, the statement that does, the
\* how-manieth call or iteration, and the message being handled, if any.
Uid(proc, stmt, k, cause) == <<proc, stmt, k, cause>>
None == <<>>

\* Message(topic=..., data=..., source_node=...) constructed as instance uid.
Message(topic, data, source, uid) ==
    [topic |-> topic, data |-> data, message_id |-> DefaultMessageId(uid[1]),
     source_node |-> source, uid |-> uid]

IsData(m) == m.topic \notin ControlTopics

\* A dict assignment d[k] = v, and d[t].append(e) after "if t not in d: d[t] = []".
Put(d, k, v) == [x \in DOMAIN d \cup {k} |-> IF x = k THEN v ELSE d[x]]

\* An append that first drops the entries the list has for the same node.
AppendUnique(d, t, e) ==
    Put(d, t, IF t \in DOMAIN d
              THEN Append(SelectSeq(d[t], LAMBDA x : x[1] # e[1]), e)
              ELSE <<e>>)

AppendTo(d, t, e) == Put(d, t, IF t \in DOMAIN d THEN Append(d[t], e) ELSE <<e>>)

\* The number of entries of list s that name node n.
RECURSIVE CountName(_, _)
CountName(s, n) ==
    IF s = <<>> THEN 0
    ELSE (IF Head(s)[1] = n THEN 1 ELSE 0) + CountName(Tail(s), n)

IsPrefix(s, t) == Len(s) <= Len(t) /\ \A i \in 1..Len(s) : s[i] = t[i]

\* History: message m has been constructed.
Instance(m) == [uid |-> m.uid, message_id |-> m.message_id, topic |-> m.topic,
                data |-> m.data]
Construct(m) == constructed' = constructed \cup {Instance(m)}

----------------------------------------------------------------------------
\* Master (master_node.py)

\* A server is accepting connections at address a.
Listening(a) == \E n \in Names : NodeAddress(n) = a /\ phase[n] = "started"
NodeAt(a) == CHOOSE n \in Names : NodeAddress(n) = a

\* NetworkNode.send_message(m, a) on the Master's transport: the cached writer
\* for str(a), or connect_to(a), which caches the new writer; then the frame is
\* written.  When nothing listens at a the connect (or the write) fails and
\* send_message returns False: nothing is delivered and nothing is cached.
MasterSend(m, a) ==
    IF Listening(a)
    THEN /\ toNode' = [toNode EXCEPT ![NodeAt(a)] = Append(@, m)]
         /\ mclients' = mclients \cup {AddrStr(a)}
    ELSE UNCHANGED <<toNode, mclients>>

Reading == [pc |-> "read"]

\* The entries of a registry that do not name node n.
Without(d, n) ==
    [t \in DOMAIN d |-> SelectSeq(d[t], LAMBDA e : e[1] # n)]

\* A Master that forgets what a node registered when the node registers
\* again.
handle_registration_purging(c, m) ==
    /\ IF {"node_name", "address"} \subseteq DOMAIN m.data
       THEN LET node_address == from_string(m.data.address)
                confirmation == Message("__registration_confirm__",
                                        [status |-> "confirmed"], MasterName,
                                        Uid(MasterName, "confirm", 0, m.uid))
            IN  /\ nodes' = Put(nodes, m.data.node_name, node_address)
                /\ publishers' = Without(publishers, m.data.node_name)
                /\ subscribers' = Without(subscribers, m.data.node_name)
                /\ Construct(confirmation)
                /\ MasterSend(confirmation, node_address)
       ELSE UNCHANGED <<nodes, publishers, subscribers, constructed, toNode, mclients>>
    /\ mtask' = [mtask EXCEPT ![c] = Reading]
    /\ UNCHANGED <<owed, disclosed>>

\* A Master that keeps the first address a node registered under.
handle_registration_first_wins(c, m) ==
    /\ IF {"node_name", "address"} \subseteq DOMAIN m.data
       THEN LET node_address == from_string(m.data.address)
                confirmation == Message("__registration_confirm__",
                                        [status |-> "confirmed"], MasterName,
                                        Uid(MasterName, "confirm", 0, m.uid))
            IN  /\ nodes' = IF m.data.node_name \in DOMAIN nodes THEN nodes
                            ELSE Put(nodes, m.data.node_name, node_address)
                /\ Construct(confirmation)
                /\ MasterSend(confirmation, node_address)
       ELSE UNCHANGED <<nodes, constructed, toNode, mclients>>
    /\ mtask' = [mtask EXCEPT ![c] = Reading]
    /\ UNCHANGED <<publishers, subscribers, owed, disclosed>>

\* Master.handle_registration.  A payload without the two keys raises KeyError,
\* which the handler logs.
handle_registration(c, m) ==
    /\ IF {"node_name", "address"} \subseteq DOMAIN m.data
       THEN LET node_address == from_string(m.data.address)
                confirmation == Message("__registration_confirm__",
                                        [status |-> "confirmed"], MasterName,
                                        Uid(MasterName, "confirm", 0, m.uid))
            IN  /\ nodes' = Put(nodes, m.data.node_name, node_address)
                /\ Construct(confirmation)
                /\ MasterSend(confirmation, node_address)
       ELSE UNCHANGED <<nodes, constructed, toNode, mclients>>
    /\ mtask' = [mtask EXCEPT ![c] = Reading]
    /\ UNCHANGED <<publishers, subscribers, owed, disclosed>>

\* A Master that registers the publisher whether or not it knows the node.
register_unknown_publisher(c, m) ==
    /\ IF {"node_name", "topic"} \subseteq DOMAIN m.data
       THEN publishers' = AppendTo(publishers, m.data.topic,
                                   <<m.data.node_name,
                                     IF m.data.node_name \in DOMAIN nodes
                                     THEN nodes[m.data.node_name]
                                     ELSE NodeAddress(m.data.node_name)>>)
       ELSE UNCHANGED publishers
    /\ mtask' = [mtask EXCEPT ![c] = Reading]
    /\ UNCHANGED <<nodes, subscribers, constructed, toNode, mclients,
                   owed, disclosed>>

\* Master.handle_publisher_registration: an unknown node is logged and dropped.
handle_publisher_registration(c, m) ==
    /\ IF /\ {"node_name", "topic"} \subseteq DOMAIN m.data
          /\ m.data.node_name \in DOMAIN nodes
       THEN publishers' = AppendTo(publishers, m.data.topic,
                                   <<m.data.node_name, nodes[m.data.node_name]>>)
       ELSE UNCHANGED publishers
    /\ mtask' = [mtask EXCEPT ![c] = Reading]
    /\ UNCHANGED <<nodes, subscribers, constructed, toNode, mclients,
                   owed, disclosed>>

\* A Master that enters a subscriber it does not know, under the address
\* of its connection.
RegisterSubscriberUnchecked(c, m, dis) ==
    LET topic == m.data.topic
        node_name == m.data.node_name
    IN  /\ subscribers' = AppendTo(subscribers, topic,
                                   <<node_name, IF node_name \in DOMAIN nodes
                                                THEN nodes[node_name]
                                                ELSE NodeAddress(node_name)>>)
        /\ disclosed' = [dis EXCEPT ![m.uid].done = TRUE]
        /\ mtask' = [mtask EXCEPT ![c] = Reading]
        /\ UNCHANGED <<constructed, toNode, mclients>>

\* The tail of Master.handle_subscriber_registration (master_node.py:107-110):
\* the topic's list is created first, then self.nodes[node_name] is looked up,
\* so an unknown node raises KeyError after the empty list exists.
RegisterSubscriber(c, m, dis) ==
    LET topic == m.data.topic
        node_name == m.data.node_name
        created == IF topic \in DOMAIN subscribers THEN subscribers
                   ELSE Put(subscribers, topic, <<>>)
    IN  /\ subscribers' = IF node_name \in DOMAIN nodes
                          THEN AppendTo(created, topic, <<node_name, nodes[node_name]>>)
                          ELSE created
        /\ disclosed' = [dis EXCEPT ![m.uid].done = TRUE]
        /\ mtask' = [mtask EXCEPT ![c] = Reading]
        /\ UNCHANGED <<constructed, toNode, mclients>>

\* One iteration of "for pub_name, pub_address in self.publishers[topic]"
\* (master_node.py:91-105), entered at the start of the handler and whenever the
\* task resumes from the await of the previous iteration.  The list iterator
\* holds an index into the live list, not a copy of it.
DiscloseIter(c, m, i, dis) ==
    LET topic == m.data.topic
        node_name == m.data.node_name
    IN  IF i <= Len(publishers[topic])
        THEN LET pub == publishers[topic][i]
                 connection_info ==
                     Message("__publisher_info__",
                             [publisher_name |-> pub[1],
                              publisher_address |-> AddrStr(pub[2]),
                              topic |-> topic],
                             MasterName, Uid(MasterName, "info", i, m.uid))
             IN  /\ Construct(connection_info)
                 /\ UNCHANGED subscribers
                 /\ IF node_name \in DOMAIN nodes
                    THEN /\ MasterSend(connection_info, nodes[node_name])
                         /\ mtask' = [mtask EXCEPT ![c] =
                                        [pc |-> "disclose", msg |-> m, i |-> i + 1]]
                         /\ disclosed' = [dis EXCEPT ![m.uid].sent = Append(@, pub)]
                    ELSE \* KeyError: logged, the handler ends
                         /\ UNCHANGED <<toNode, mclients>>
                         /\ mtask' = [mtask EXCEPT ![c] = Reading]
                         /\ disclosed' = [dis EXCEPT ![m.uid].done = TRUE]
        ELSE RegisterSubscriber(c, m, dis)

\* Master.handle_subscriber_registration.
handle_subscriber_registration(c, m) ==
    /\ UNCHANGED <<nodes, publishers, owed>>
    /\ IF {"node_name", "topic"} \subseteq DOMAIN m.data
       THEN LET topic == m.data.topic
                dis == Put(disclosed, m.uid,
                           [name |-> m.data.node_name, topic |-> topic,
                            snap |-> IF topic \in DOMAIN publishers
                                     THEN publishers[topic] ELSE <<>>,
                            sent |-> <<>>, done |-> FALSE])
            IN  IF topic \in DOMAIN publishers
                THEN DiscloseIter(c, m, 1, dis)
                ELSE RegisterSubscriber(c, m, dis)
       ELSE /\ mtask' = [mtask EXCEPT ![c] = Reading]
            /\ UNCHANGED <<subscribers, constructed, toNode, mclients, disclosed>>

\* A relay loop that gives up at the first send that fails.
RelayIterStopOnFailure(c, m, i) ==
    IF i <= Len(subscribers[m.topic]) /\ Listening(subscribers[m.topic][i][2])
    THEN /\ MasterSend(m, subscribers[m.topic][i][2])
         /\ mtask' = [mtask EXCEPT ![c] = [pc |-> "relay", msg |-> m, i |-> i + 1]]
    ELSE /\ mtask' = [mtask EXCEPT ![c] = Reading]
         /\ UNCHANGED <<toNode, mclients>>

\* A relay that looks the subscriber's address up in nodes when it sends.
RelayIterCurrentAddress(c, m, i) ==
    IF i <= Len(subscribers[m.topic])
    THEN /\ MasterSend(m, nodes[subscribers[m.topic][i][1]])
         /\ mtask' = [mtask EXCEPT ![c] = [pc |-> "relay", msg |-> m, i |-> i + 1]]
    ELSE /\ mtask' = [mtask EXCEPT ![c] = Reading]
         /\ UNCHANGED <<toNode, mclients>>

\* One iteration of "for _, sub_address in self.subscribers[topic]"
\* (master_node.py:119-120): send_message reports a failure as False, which the
\* loop ignores.
RelayIter(c, m, i) ==
    IF i <= Len(subscribers[m.topic])
    THEN /\ MasterSend(m, subscribers[m.topic][i][2])
         /\ mtask' = [mtask EXCEPT ![c] = [pc |-> "relay", msg |-> m, i |-> i + 1]]
    ELSE /\ mtask' = [mtask EXCEPT ![c] = Reading]
         /\ UNCHANGED <<toNode, mclients>>

\* Master.distribute_message.
distribute_message(c, m) ==
    IF m.topic \in DOMAIN subscribers
    THEN /\ owed' = owed \cup {<<m.uid, subscribers[m.topic][k][1]>> :
                                 k \in 1..Len(subscribers[m.topic])}
         /\ RelayIter(c, m, 1)
    ELSE /\ mtask' = [mtask EXCEPT ![c] = Reading]
         /\ UNCHANGED <<toNode, mclients, owed>>

\* Master.handle_message: dispatch by topic.
MasterHandle(c, m) ==
    IF m.topic = "__registration__" THEN handle_registration(c, m)
    ELSE IF m.topic = "__publisher_registration__"
         THEN handle_publisher_registration(c, m)
    ELSE IF m.topic = "__subscriber_registration__"
         THEN handle_subscriber_registration(c, m)
    ELSE /\ distribute_message(c, m)
         /\ UNCHANGED <<nodes, publishers, subscribers, constructed, disclosed>>

\* The read loop of the Master for the connection of node c
\* (NetworkNode.handle_connection) takes the next frame and runs the handler up
\* to its first await.
MasterReceive(c) ==
    /\ mtask[c].pc = "read"
    /\ toMaster[c] # <<>>
    /\ toMaster' = [toMaster EXCEPT ![c] = Tail(@)]
    /\ MasterHandle(c, Head(toMaster[c]))
    /\ UNCHANGED <<command_queue, nodeVars, direct, unread, budget,
                   callbacks, known, directSent, promised, conn, reg, unitVars>>

\* A handler suspended in one of the two sending loops resumes.
MasterResume(c) ==
    /\ mtask[c].pc \in {"disclose", "relay"}
    /\ IF mtask[c].pc = "disclose"
       THEN DiscloseIter(c, mtask[c].msg, mtask[c].i, disclosed)
       ELSE /\ RelayIter(c, mtask[c].msg, mtask[c].i)
            /\ UNCHANGED <<subscribers, constructed, disclosed>>
    /\ UNCHANGED <<nodes, publishers, owed, command_queue, nodeVars, toMaster,
                   direct, unread, budget, callbacks, known, directSent, promised, conn, reg, unitVars>>

\* MasterShell.do_publish (master_node.py:195-205): the shell thread queues a
\* 'publish' command.
ShellPublish(topic, data) ==
    /\ budget.shell
    /\ budget.msgs > 0
    /\ budget' = [budget EXCEPT !.msgs = @ - 1]
    /\ command_queue' = Append(command_queue, <<"publish", topic, data, budget.msgs>>)
    /\ UNCHANGED <<nodes, publishers, subscribers, mclients, mtask, nodeVars,
                   netVars, histVars, conn, reg, unitVars>>

\* Master.process_command_queue, the 'publish' command (master_node.py:136-139).
\* The fourth component of a queued command is history: which input it was.
MasterCommand ==
    /\ mtask[ShellConn].pc = "read"
    /\ command_queue # <<>>
    /\ LET cmd == Head(command_queue)
           message == Message(cmd[2], cmd[3], MasterName,
                              Uid(MasterName, "shell", cmd[4], None))
       IN  /\ Construct(message)
           /\ distribute_message(ShellConn, message)
    /\ command_queue' = Tail(command_queue)
    /\ UNCHANGED <<nodes, publishers, subscribers, nodeVars, toMaster, direct,
                   unread, budget, callbacks, known, directSent,
                   promised, disclosed, conn, reg, unitVars>>

----------------------------------------------------------------------------
\* Node (node.py)

Alive(n) == phase[n] # "exited"

\* The application of node n calls publish and subscribe once start() has
\* returned, as main() and the examples do; the applications in budget.raw call
\* them on a node that was constructed and never started.
MayCall(n) ==
    \/ phase[n] = "started" /\ registered[n]
    \/ phase[n] = "init" /\ n \in budget.raw

\* NetworkNode.send_message(m, self.master_address) on a node's transport: the
\* Master is up throughout, so the connect and the write succeed.
SendToMaster(n, frames) ==
    /\ toMaster' = [toMaster EXCEPT ![n] = @ \o frames]
    /\ nclients' = [nclients EXCEPT ![n] = @ \cup {AddrStr(MasterAddress)}]

\* The data messages constructed by nodes so far.
Published == {r.uid : r \in {x \in constructed : x.uid[2] = "publish"}}

\* Node.start (node.py:167-189): the server is started and register_with_master
\* sends __registration__ with the address the server is bound to.
NodeStart(n) ==
    /\ phase[n] = "init"
    /\ n \in budget.start
    /\ phase' = [phase EXCEPT ![n] = "started"]
    /\ LET registration == Message("__registration__",
                                   [node_name |-> n,
                                    address |-> AddrStr(NodeAddress(n))],
                                   n, Uid(n, "register", 0, None))
       IN  /\ Construct(registration)
           /\ SendToMaster(n, <<registration>>)
    /\ known' = [known EXCEPT ![n] = Published]
    /\ UNCHANGED <<masterVars, registered, nsubscribers, npublishers,
                   publisher_connections, subscriber_connections, toNode, direct,
                   unread, budget, callbacks, owed, directSent, promised, disclosed,
                   conn, reg, unitVars>>

\* Node.subscribe (node.py:147-165).
Subscribe(n, topic) ==
    /\ MayCall(n)
    /\ n \in budget.sub
    /\ budget' = [budget EXCEPT !.sub = @ \ {n}]
    /\ nsubscribers' = [nsubscribers EXCEPT ![n] = @ \cup {topic}]
    /\ LET registration == Message("__subscriber_registration__",
                                   [node_name |-> n, topic |-> topic],
                                   n, Uid(n, "subscribe", 0, None))
       IN  /\ Construct(registration)
           /\ SendToMaster(n, <<registration>>)
    /\ UNCHANGED <<masterVars, phase, registered, npublishers, publisher_connections,
                   subscriber_connections, toNode, direct, unread, callbacks, owed,
                   known, directSent,
                   promised, disclosed, conn, reg, unitVars>>

\* The nodes with an entry in the Master's subscribers[topic].
Entered(topic) ==
    IF topic \in DOMAIN subscribers
    THEN {subscribers[topic][k][1] : k \in 1..Len(subscribers[topic])}
    ELSE {}

\* The frames written on the connection opened by subscriber w to publisher n
\* when n sends m to the writers of the <<subscriber, writer>> pairs in pcs: the
\* writer is the publisher's end of the connection the subscriber opened.
DirectWrites(n, pcs, m) ==
    [e \in DOMAIN unread |->
        IF e[2] = n /\ Alive(e[1]) /\ \E pc \in pcs : pc[2] = e[1]
        THEN Append(unread[e], m) ELSE unread[e]]

\* Node.publish (node.py:21-39): the publisher registration on the first call
\* for the topic, the message to the Master, then the message to every writer
\* in publisher_connections[topic].
Publish(n, topic, data) ==
    /\ MayCall(n)
    /\ n \in budget.pubs
    /\ budget.msgs > 0
    /\ budget' = [budget EXCEPT !.msgs = @ - 1]
    /\ LET first == topic \notin npublishers[n]
           registration == Message("__publisher_registration__",
                                   [node_name |-> n, topic |-> topic],
                                   n, Uid(n, "register_publisher", budget.msgs, None))
           message == Message(topic, data, n, Uid(n, "publish", budget.msgs, None))
           pcs == publisher_connections[n][topic]
       IN  /\ constructed' = constructed \cup {Instance(message)}
                  \cup (IF first THEN {Instance(registration)} ELSE {})
           /\ SendToMaster(n, (IF first THEN <<registration>> ELSE <<>>)
                               \o <<message>>)
           /\ unread' = DirectWrites(n, pcs, message)
           /\ directSent' = directSent \cup {<<message.uid, pc[1]>> : pc \in pcs}
           /\ promised' = promised \cup {<<message.uid, x>> : x \in Entered(topic)}
    /\ npublishers' = [npublishers EXCEPT ![n] = @ \cup {topic}]
    /\ UNCHANGED <<masterVars, phase, registered, nsubscribers,
                   publisher_connections, subscriber_connections, toNode, direct,
                   callbacks, owed, known, disclosed, conn, reg, unitVars>>

\* Node.connect_to_publisher (node.py:120-145): connect, remember the
\* connection, send __subscribe__ on it.  A failed connect is logged.
connect_to_publisher(n, connection_info, cause, dq) ==
    IF {"topic", "publisher_address"} \subseteq DOMAIN connection_info
       /\ Listening(from_string(connection_info.publisher_address))
    THEN LET topic == connection_info.topic
             pub_address == from_string(connection_info.publisher_address)
             p == NodeAt(pub_address)
             subscription == Message("__subscribe__",
                                     [topic |-> topic, subscriber |-> n],
                                     n, Uid(n, "connect_to_publisher", 0, cause))
         IN  /\ nclients' = [nclients EXCEPT ![n] = @ \cup {AddrStr(pub_address)}]
             /\ subscriber_connections' =
                    [subscriber_connections EXCEPT ![n][topic] = AddrStr(pub_address)]
             /\ Construct(subscription)
             /\ direct' = [dq EXCEPT ![<<n, p>>] = Append(@, subscription)]
    ELSE /\ direct' = dq
         /\ UNCHANGED <<nclients, subscriber_connections, constructed>>

\* A dispatch that looks the topic up among the topics the node publishes.
dispatch_by_publishers(n, m, w) ==
    IF m.topic \in npublishers[n]
    THEN callbacks' = [callbacks EXCEPT ![n] =
                          Append(@, [uid |-> m.uid, topic |-> m.topic,
                                     data |-> m.data,
                                     message_id |-> m.message_id,
                                     via |-> IF w = MasterName
                                             THEN "relay" ELSE "direct"])]
    ELSE UNCHANGED callbacks

\* "if message.topic in self.subscribers: callback(message)" (node.py:82-87).
dispatch(n, m, w) ==
    IF m.topic \in nsubscribers[n]
    THEN callbacks' = [callbacks EXCEPT ![n] =
                          Append(@, [uid |-> m.uid, topic |-> m.topic,
                                     data |-> m.data,
                                     message_id |-> m.message_id,
                                     via |-> IF w = MasterName
                                             THEN "relay" ELSE "direct"])]
    ELSE UNCHANGED callbacks

\* Node.handle_message (node.py:56-89) for message m read from the connection
\* whose peer is w (the Master, or the node that opened the connection); dq is
\* the state of the node-to-node connections once the frame has been read.
handle_message(n, m, w, dq) ==
    IF m.topic = "__subscribe__"
    THEN /\ IF {"topic", "subscriber"} \subseteq DOMAIN m.data
            THEN publisher_connections' =
                     [publisher_connections EXCEPT ![n][m.data.topic] =
                         {e \in @ : e[1] # m.data.subscriber}
                             \cup {<<m.data.subscriber, w>>}]
            ELSE UNCHANGED publisher_connections
         /\ direct' = dq
         /\ UNCHANGED <<registered, callbacks, nclients, subscriber_connections,
                        constructed>>
    ELSE IF m.topic = "__publisher_info__"
    THEN /\ connect_to_publisher(n, m.data, m.uid, dq)
         /\ UNCHANGED <<registered, callbacks, publisher_connections>>
    ELSE IF m.topic = "__registration_confirm__"
    THEN /\ registered' = [registered EXCEPT ![n] = TRUE]
         /\ direct' = dq
         /\ UNCHANGED <<callbacks, publisher_connections, nclients,
                        subscriber_connections, constructed>>
    ELSE /\ dispatch(n, m, w)
         /\ direct' = dq
         /\ UNCHANGED <<registered, publisher_connections, nclients,
                        subscriber_connections, constructed>>

\* The read loop of node n for the connection accepted from the Master.
NodeReceive(n) ==
    /\ phase[n] = "started"
    /\ toNode[n] # <<>>
    /\ toNode' = [toNode EXCEPT ![n] = Tail(@)]
    /\ handle_message(n, Head(toNode[n]), MasterName, direct)
    /\ UNCHANGED <<masterVars, phase, nsubscribers, npublishers, toMaster, unread,
                   budget, owed, known, directSent,
                   promised, disclosed, conn, reg, unitVars>>

\* The read loop of node p for the connection accepted from node s.
NodeReceiveDirect(p, s) ==
    /\ phase[p] = "started"
    /\ direct[<<s, p>>] # <<>>
    /\ handle_message(p, Head(direct[<<s, p>>]), s,
                      [direct EXCEPT ![<<s, p>>] = Tail(@)])
    /\ UNCHANGED <<masterVars, phase, nsubscribers, npublishers, toMaster, toNode,
                   unread, budget, owed, known, directSent,
                   promised, disclosed, conn, reg, unitVars>>

\* The node's process ends (node.py:244-250: KeyboardInterrupt, Node.stop, exit):
\* its sockets are closed and what was queued for it is lost.
NodeExit(n) ==
    /\ phase[n] = "started"
    /\ n \in budget.exit
    /\ phase' = [phase EXCEPT ![n] = "exited"]
    /\ toNode' = [toNode EXCEPT ![n] = <<>>]
    /\ direct' = [e \in DOMAIN direct |-> IF e[2] = n THEN <<>> ELSE direct[e]]
    /\ UNCHANGED <<masterVars, registered, nsubscribers, npublishers,
                   publisher_connections, subscriber_connections, nclients,
                   toMaster, unread, budget, histVars, conn, reg, unitVars>>

----------------------------------------------------------------------------
\* The protocol: a Master, the nodes, their applications and the shell

Off == [pc |-> "off"]

\* The inputs of a run: the nodes that are started, the nodes whose application
\* calls the API without start(), the nodes whose application publishes, the
\* nodes whose application subscribes (once, to a topic of its choice), the
\* nodes whose process may end, whether the operator publishes from the shell,
\* and the number of messages published.
Inputs(start, raw, pubs, sub, exit, shell, msgs) ==
    [start |-> start, raw |-> raw, pubs |-> pubs, sub |-> sub, exit |-> exit,
     shell |-> shell, msgs |-> msgs]

\* The state after the Master and the nodes are constructed, with the calls the
\* applications and the shell operator will make given by b.
InitNet(b) ==
    /\ nodes = [x \in {} |-> 0]
    /\ publishers = [x \in {} |-> 0]
    /\ subscribers = [x \in {} |-> 0]
    /\ mclients = {}
    /\ mtask = [c \in Conns |-> Reading]
    /\ command_queue = <<>>
    /\ phase = [n \in Names |-> "init"]
    /\ registered = [n \in Names |-> FALSE]
    /\ nsubscribers = [n \in Names |-> {}]
    /\ npublishers = [n \in Names |-> {}]
    /\ publisher_connections = [n \in Names |-> [t \in Topics |-> {}]]
    /\ subscriber_connections = [n \in Names |-> [t \in Topics |-> <<>>]]
    /\ nclients = [n \in Names |-> {}]
    /\ toMaster = [n \in Names |-> <<>>]
    /\ toNode = [n \in Names |-> <<>>]
    /\ direct = [e \in Names \X Names |-> <<>>]
    /\ unread = [e \in Names \X Names |-> <<>>]
    /\ budget = b
    /\ constructed = {}
    /\ callbacks = [n \in Names |-> <<>>]
    /\ owed = {}
    /\ known = [n \in Names |-> {}]
    /\ directSent = {}
    /\ promised = {}
    /\ disclosed = [x \in {} |-> 0]

\* No call is made in the protocol runs.
NoCalls == Inputs({}, {}, {}, {}, {}, FALSE, 0)

\* The calls modelled on their own are not made.
InitUnits == snd = Off /\ api = Off /\ rd = Off /\ stp = Off

InitProto(b) == InitNet(b) /\ conn = Off /\ reg = Off /\ InitUnits

\* The number of application messages published in a run, by the nodes'
\* applications and from the shell together.
MaxMessages == 1

\* A publishes and subscribes, B subscribes and its process may end, the
\* operator publishes from the shell.
Init ==
    InitProto(Inputs({"A", "B"}, {}, {"A"}, {"A", "B"}, {"B"}, TRUE, MaxMessages))

Next ==
    \/ \E n \in Names : NodeStart(n)
    \/ \E n \in Names, t \in Topics : Subscribe(n, t)
    \/ \E n \in Names, d \in Payloads : Publish(n, "temp", d)
    \/ \E n \in Names : NodeExit(n)
    \/ \E n \in Names : NodeReceive(n)
    \/ \E p \in Names, s \in Names : NodeReceiveDirect(p, s)
    \/ \E c \in Names : MasterReceive(c)
    \/ \E c \in Conns : MasterResume(c)
    \/ \E t \in Topics, d \in Payloads : ShellPublish(t, d)
    \/ MasterCommand

Spec == Init /\ [][Next]_vars

\* The event loops run every task that is ready and the network delivers what
\* was written: a frame that can be read is read, a suspended handler resumes.
\* Nothing obliges the applications, the operator or a process's end.
Fairness ==
    /\ \A c \in Names : WF_vars(MasterReceive(c))
    /\ \A c \in Conns : WF_vars(MasterResume(c))
    /\ WF_vars(MasterCommand)
    /\ \A n \in Names : WF_vars(NodeReceive(n))
    /\ \A p \in Names, s \in Names : WF_vars(NodeReceiveDirect(p, s))

FairSpec == Spec /\ Fairness

\* The number of messages the publisher's application publishes.
MaxPublish == 2

\* A publishes, B subscribes: the direct path A -> B next to the relay.
InitDirect ==
    InitProto(Inputs({"A", "B"}, {}, {"A"}, {"B"}, {}, FALSE, MaxPublish))

NextDirect ==
    \/ \E n \in Names : NodeStart(n)
    \/ \E n \in Names, t \in Topics : Subscribe(n, t)
    \/ \E n \in Names, d \in Payloads : Publish(n, "temp", d)
    \/ \E n \in Names : NodeReceive(n)
    \/ \E p \in Names, s \in Names : NodeReceiveDirect(p, s)
    \/ \E c \in Names : MasterReceive(c)
    \/ \E c \in Conns : MasterResume(c)

SpecDirect == InitDirect /\ [][NextDirect]_vars

FairSpecDirect == SpecDirect /\ Fairness

\* The number of messages the two publishers' applications publish together.
MaxDiscPublish == 2

\* A and C publish, B subscribes: discovery of publishers.
InitDisc ==
    InitProto(Inputs({"A", "B", "C"}, {}, {"A", "C"}, {"B"}, {}, FALSE, MaxDiscPublish))

SpecDisc == InitDisc /\ [][NextDirect]_vars

\* The number of messages published by applications that use the API freely.
MaxApiPublish == 1

\* A and B are used through the API alone: their applications may call publish
\* and subscribe on a node they never started.
InitApi ==
    InitProto(Inputs({"A", "B"}, {"A", "B"}, {"A"}, {"B"}, {}, FALSE, MaxApiPublish))

SpecApi == InitApi /\ [][NextDirect]_vars

\* The number of frames that clients write to the Master on their own.
MaxClientFrames == 3

\* The nodes that clients name in their frames, and the addresses they give.
ClientNames == {"A", "B"}
ClientAddresses == {NodeAddress(n) : n \in ClientNames}

\* The well-formed frames of the Master's protocol (master_node.py:17-32):
\* the three registrations as register_with_master, register_publisher and
\* subscribe build them (node.py:101-110, 41-50, 150-160), and an
\* application message.
ClientFrames(c, k) ==
    {Message("__registration__", [node_name |-> n, address |-> AddrStr(a)],
             n, Uid(c, "client", k, None)) : n \in ClientNames, a \in ClientAddresses}
    \cup {Message("__publisher_registration__", [node_name |-> n, topic |-> "temp"],
                  n, Uid(c, "client", k, None)) : n \in ClientNames}
    \cup {Message("__subscriber_registration__", [node_name |-> n, topic |-> "temp"],
                  n, Uid(c, "client", k, None)) : n \in ClientNames}
    \cup {Message("temp", d, c, Uid(c, "client", k, None)) : d \in Payloads}

\* A process connected to the Master as c writes frame m on its connection:
\* a node that came up again under another port, or any program that speaks
\* the protocol.
ClientWrite(c, m) ==
    /\ budget.msgs > 0
    /\ budget' = [budget EXCEPT !.msgs = @ - 1]
    /\ Construct(m)
    /\ toMaster' = [toMaster EXCEPT ![c] = Append(@, m)]
    /\ UNCHANGED <<masterVars, nodeVars, toNode, direct, unread, callbacks, owed,
                   known, directSent, promised, disclosed, conn, reg, unitVars>>

\* A and B start and register; a client writes frames of its own on a third
\* connection; B's process may end.  What the Master writes to
\* a node stays on the connection: the nodes' read loops are left out.
InitMaster ==
    InitProto(Inputs({"A", "B"}, {}, {}, {}, {"B"}, FALSE, MaxClientFrames))

NextMaster ==
    \/ \E n \in Names : NodeStart(n)
    \/ \E n \in Names : NodeExit(n)
    \/ \E m \in ClientFrames("C", budget.msgs) : ClientWrite("C", m)
    \/ \E c \in Names : MasterReceive(c)
    \/ \E c \in Conns : MasterResume(c)

SpecMaster == InitMaster /\ [][NextMaster]_vars

----------------------------------------------------------------------------
\* Node.register_with_master and Node.wait_for_registration for one node

\* "timeout=5": the seconds wait_for_registration waits.
RegistrationTimeout == 5

\* The number of calls of register_with_master.
MaxRegCalls == 2

\* The frames that may lie on the connection from the Master to the node.
RegFrames == {"__registration_confirm__", "__publisher_info__", "temp"}

SendFailed == "Failed to send registration message"
NotConfirmed == "Registration not confirmed by master"

\* The node is constructed: the Event is clear, nothing was sent.
RegIdle ==
    [pc |-> "idle", calls |-> 0, success |-> FALSE, registered |-> FALSE,
     clock |-> 0, wire |-> <<>>, pending |-> 0, confirms |-> 0,
     error |-> "", confirmed |-> FALSE]

InitReg == InitNet(NoCalls) /\ conn = Off /\ reg = RegIdle /\ InitUnits

\* A register_with_master that clears the Event before it sends.
register_with_master_clearing ==
    /\ reg.pc \in {"idle", "returned", "raised"}
    /\ reg.calls < MaxRegCalls
    /\ reg' = [reg EXCEPT !.pc = "sending", !.calls = @ + 1, !.success = FALSE,
                          !.clock = 0, !.error = "", !.confirmed = FALSE,
                          !.registered = FALSE]
    /\ UNCHANGED <<protoVars, conn, unitVars>>

\* register_with_master is called (node.py:101-110): the registration message
\* is constructed and handed to send_message.
register_with_master ==
    /\ reg.pc \in {"idle", "returned", "raised"}
    /\ reg.calls < MaxRegCalls
    /\ reg' = [reg EXCEPT !.pc = "sending", !.calls = @ + 1, !.success = FALSE,
                          !.clock = 0, !.error = "", !.confirmed = FALSE]
    /\ UNCHANGED <<protoVars, conn, unitVars>>

\* "success = await self.network.send_message(...)" returns (node.py:112-114):
\* False raises at once, True leaves the registration with the Master and
\* enters wait_for_registration.
send_registration(success) ==
    /\ reg.pc = "sending"
    /\ reg' = IF success
              THEN [reg EXCEPT !.pc = "waiting", !.success = TRUE,
                               !.pending = @ + 1]
              ELSE [reg EXCEPT !.pc = "raised", !.error = SendFailed,
                               !.confirmed = reg.registered]
    /\ UNCHANGED <<protoVars, conn, unitVars>>

\* Master.handle_registration answers a registration (master_node.py:43-61):
\* the confirmation is sent, unless its send_message fails.
confirm_registration(sent) ==
    /\ reg.pending > 0
    /\ reg' = [reg EXCEPT !.pending = @ - 1,
                          !.wire = IF sent THEN Append(@, "__registration_confirm__")
                                   ELSE @]
    /\ UNCHANGED <<protoVars, conn, unitVars>>

\* Another frame is written to the node.
OtherFrame(topic) ==
    /\ topic # "__registration_confirm__"
    /\ reg.pc = "waiting"
    /\ reg.wire = <<>>
    /\ reg' = [reg EXCEPT !.wire = Append(@, topic)]
    /\ UNCHANGED <<protoVars, conn, unitVars>>

\* Node.handle_message on the next frame (node.py:77-80): a confirmation sets
\* the Event, which nothing ever clears; confirms counts the confirmations
\* handled (history).
handle_confirm ==
    /\ reg.wire # <<>>
    /\ reg' = IF Head(reg.wire) = "__registration_confirm__"
              THEN [reg EXCEPT !.wire = Tail(@), !.registered = TRUE,
                               !.confirms = @ + 1]
              ELSE [reg EXCEPT !.wire = Tail(@)]
    /\ UNCHANGED <<protoVars, conn, unitVars>>

\* A second passes while wait_for waits for the Event.
RegTick ==
    /\ reg.pc = "waiting"
    /\ ~reg.registered
    /\ reg.clock < RegistrationTimeout
    /\ reg' = [reg EXCEPT !.clock = @ + 1]
    /\ UNCHANGED <<protoVars, conn, unitVars>>

\* A wait that reports success when the time is up.
wait_for_registration_lenient ==
    /\ reg.pc = "waiting"
    /\ reg.registered \/ reg.clock = RegistrationTimeout
    /\ reg' = [reg EXCEPT !.pc = "returned", !.confirmed = reg.registered]
    /\ UNCHANGED <<protoVars, conn, unitVars>>

\* wait_for_registration returns (node.py:92-99) and register_with_master
\* with it (node.py:117-118): True once the Event is set, False (and the
\* ConnectionError) when the timeout expires with the Event clear.
wait_for_registration ==
    /\ reg.pc = "waiting"
    /\ reg.registered \/ reg.clock = RegistrationTimeout
    /\ reg' = IF reg.registered
              THEN [reg EXCEPT !.pc = "returned", !.confirmed = TRUE]
              ELSE [reg EXCEPT !.pc = "raised", !.error = NotConfirmed,
                               !.confirmed = FALSE]
    /\ UNCHANGED <<protoVars, conn, unitVars>>

NextReg ==
    \/ register_with_master
    \/ \E success \in BOOLEAN : send_registration(success)
    \/ \E sent \in BOOLEAN : confirm_registration(sent)
    \/ \E t \in RegFrames : OtherFrame(t)
    \/ handle_confirm
    \/ RegTick
    \/ wait_for_registration

SpecReg == InitReg /\ [][NextReg]_vars

----------------------------------------------------------------------------
\* NetworkNode.connect_to for one transport

\* "self.connection_retries = 3".
connection_retries == 3

\* "await asyncio.sleep(1)": the seconds between two attempts.
RetryDelay == 1

\* The number of calls of connect_to.
MaxConnectCalls == 2

\* What asyncio.open_connection may raise.
ConnectErrors == {"ConnectionRefusedError", "TimeoutError"}

Remotes == {AddrStr(MasterAddress), AddrStr(NodeAddress("A"))}

\* The transport is constructed: the cache is empty.
ConnIdle ==
    [pc |-> "idle", calls |-> 0, remote |-> None, attempt |-> 0,
     last_exception |-> None, tried |-> <<>>, delays |-> <<>>,
     clients |-> {}, clients0 |-> {}, raised |-> None]

InitConn == InitNet(NoCalls) /\ conn = ConnIdle /\ reg = Off /\ InitUnits

\* connect_to is called (ros_core.py:176-180).
connect_to(remote_address) ==
    /\ conn.pc \in {"idle", "connected", "raised"}
    /\ conn.calls < MaxConnectCalls
    /\ conn' = [conn EXCEPT !.pc = "attempt", !.calls = @ + 1,
                            !.remote = remote_address, !.attempt = 0,
                            !.last_exception = None, !.tried = <<>>,
                            !.delays = <<>>, !.clients0 = conn.clients,
                            !.raised = None]
    /\ UNCHANGED <<protoVars, reg, unitVars>>

\* An attempt that gives up at the first failure.
open_connection_once(result) ==
    /\ conn.pc = "attempt"
    /\ conn' = IF result = "connected"
               THEN [conn EXCEPT !.pc = "connected",
                                 !.clients = @ \cup {conn.remote}]
               ELSE [conn EXCEPT !.last_exception = result,
                                 !.tried = Append(@, result),
                                 !.pc = "raised", !.raised = result]
    /\ UNCHANGED <<protoVars, reg, unitVars>>

\* One pass of the loop body (ros_core.py:180-196): open_connection returns,
\* or raises; after the last attempt the loop ends and last_exception is raised.
open_connection(result) ==
    /\ conn.pc = "attempt"
    /\ conn' = IF result = "connected"
               THEN [conn EXCEPT !.pc = "connected",
                                 !.clients = @ \cup {conn.remote}]
               ELSE IF conn.attempt < connection_retries - 1
               THEN [conn EXCEPT !.last_exception = result,
                                 !.tried = Append(@, result),
                                 !.pc = "sleep"]
               ELSE [conn EXCEPT !.last_exception = result,
                                 !.tried = Append(@, result),
                                 !.pc = "raised", !.raised = result]
    /\ UNCHANGED <<protoVars, reg, unitVars>>

\* "await asyncio.sleep(1)" returns and the loop takes the next attempt.
retry ==
    /\ conn.pc = "sleep"
    /\ conn' = [conn EXCEPT !.pc = "attempt", !.attempt = @ + 1,
                            !.delays = Append(@, RetryDelay)]
    /\ UNCHANGED <<protoVars, reg, unitVars>>

NextConn ==
    \/ \E a \in Remotes : connect_to(a)
    \/ \E r \in ConnectErrors \cup {"connected"} : open_connection(r)
    \/ retry

SpecConn == InitConn /\ [][NextConn]_vars

----------------------------------------------------------------------------
\* NetworkNode.send_message for one transport, with two tasks that may call it

\* The number of calls of send_message.
MaxSendCalls == 2

SendTasks == {1, 2}

\* The address at which a server listens when a node sends; nothing listens
\* at the other one.
Reachable == {AddrStr(MasterAddress)}

\* message.data as json.dumps sees it: a JSON value, or a value it rejects.
SendData == {"json", "bytes"}

\* The k-th connection opened to an address.
Writer(a, k) == <<"writer", a, k>>
Writers == {Writer(a, k) : a \in Remotes, k \in 1..(MaxSendCalls + 1)}

\* The transport is constructed: no cached writer, no task in send_message;
\* limit is the number of calls the run makes and listening the addresses at
\* which a server listens.  taken and got are the
\* peers' side: how many frames the read loop of each connection has taken,
\* and the frames in the order the peers handled them.
SendIdle(limit, listening) ==
    [limit |-> limit, listening |-> listening, clients |-> [x \in {} |-> 0], closed |-> {}, opened |-> [a \in Remotes |-> 0],
     wire |-> [w \in Writers |-> <<>>], task |-> [t \in SendTasks |-> [pc |-> "idle"]],
     log |-> <<>>, calls |-> 0, taken |-> [w \in Writers |-> 0],
     got |-> <<>>]

InitSend == InitNet(NoCalls) /\ conn = Off /\ reg = Off /\ snd = SendIdle(MaxSendCalls, Reachable)
            /\ api = Off /\ rd = Off /\ stp = Off

\* The try block ran to its end.
NoException == "none"

\* "except Exception" (ros_core.py:219): the classes it catches.
Exceptions == {"ConnectionRefusedError", "ConnectionResetError", "TypeError"}

\* A lookup that never finds the cached writer.
LookupUncached(clients, destination) == None

\* "writer = self.clients.get(str(destination))" (ros_core.py:202).
Lookup(clients, destination) ==
    IF destination \in DOMAIN clients THEN clients[destination] ELSE None

\* A handler that catches only what drain raises.
ResultDrainOnly(exc) ==
    IF exc = NoException THEN "True"
    ELSE IF exc = "ConnectionResetError" THEN "False" ELSE "raised"

\* What the call gives its caller (ros_core.py:217-221): True at the end of the
\* try block, False from the except clause, the exception if it is not caught.
Result(exc) ==
    IF exc = NoException THEN "True"
    ELSE IF exc \in Exceptions THEN "False" ELSE "raised"

\* The call of task t ends with exc; flushed tells
\* whether the frame was written to the connection and drained.
SendReturns(t, s, exc, flushed) ==
    LET c == s.task[t]
    IN  [s EXCEPT !.task[t] = [pc |-> "idle"],
                  !.log = Append(@, [task |-> t, call |-> c.call, dest |-> c.dest,
                                     cached |-> c.cached, opened |-> c.opened,
                                     writer |-> c.writer, flushed |-> flushed,
                                     result |-> Result(exc)])]

\* "data = message.to_network() ... writer.write(size_bytes + data)"
\* (ros_core.py:210-214), up to the await of drain: json.dumps raises TypeError
\* on a value it cannot encode; write on a closed transport writes nothing.
SendWrite(t, s) ==
    IF s.task[t].data = "bytes"
    THEN SendReturns(t, s, "TypeError", FALSE)
    ELSE [s EXCEPT !.task[t].pc = "drain"]

\* send_message(message, destination) is called by task t (ros_core.py:198-208);
\* destination is an address or a writer.
send_message(t, data, destination) ==
    /\ snd.task[t].pc = "idle"
    /\ snd.calls < snd.limit
    /\ LET isAddress == destination \in Remotes
           writer == IF isAddress THEN Lookup(snd.clients, destination)
                     ELSE destination
           s == [snd EXCEPT !.calls = @ + 1,
                            !.task[t] = [pc |-> "connect", call |-> snd.calls + 1,
                                         data |-> data, dest |-> destination,
                                         cached |-> IF destination \in DOMAIN snd.clients
                                                    THEN snd.clients[destination]
                                                    ELSE None,
                                         opened |-> FALSE, writer |-> writer]]
       IN  snd' = IF isAddress /\ writer = None THEN s ELSE SendWrite(t, s)
    /\ UNCHANGED <<protoVars, conn, reg, api, rd, stp>>

\* "_, writer = await self.connect_to(destination)" returns (ros_core.py:205):
\* connect_to has cached the new writer (ros_core.py:186), or raises after its
\* last attempt.
connect_returns(t) ==
    /\ snd.task[t].pc = "connect"
    /\ LET a == snd.task[t].dest
           w == Writer(a, snd.opened[a] + 1)
       IN  snd' = IF a \in snd.listening
                  THEN SendWrite(t, [snd EXCEPT !.clients = Put(@, a, w),
                                                !.opened[a] = @ + 1,
                                                !.task[t].opened = TRUE,
                                                !.task[t].writer = w])
                  ELSE SendReturns(t, snd, "ConnectionRefusedError", FALSE)
    /\ UNCHANGED <<protoVars, conn, reg, api, rd, stp>>

\* Node.connect_to_publisher(connection_info) is run by task t for a
\* __publisher_info__ naming address a (node.py:120-129): connect_to is called
\* without looking at the cache.
send_connect_to_publisher(t, a) ==
    /\ snd.task[t].pc = "idle"
    /\ snd.calls < snd.limit
    /\ snd' = [snd EXCEPT !.calls = @ + 1,
                          !.task[t] = [pc |-> "connect_to", call |-> snd.calls + 1,
                                       data |-> "json", dest |-> a,
                                       cached |-> None, opened |-> FALSE,
                                       writer |-> None]]
    /\ UNCHANGED <<protoVars, conn, reg, api, rd, stp>>

\* "reader, writer = await self.network.connect_to(pub_address)" returns
\* (node.py:129-145): connect_to has cached the new writer in place of the
\* one cached before (ros_core.py:186) and send_message(subscription,
\* pub_address) finds it in the cache; when connect_to raises the error is
\* logged and nothing is sent.
connect_to_returns(t) ==
    /\ snd.task[t].pc = "connect_to"
    /\ LET a == snd.task[t].dest
           w == Writer(a, snd.opened[a] + 1)
           s == [snd EXCEPT !.clients = Put(@, a, w), !.opened[a] = @ + 1]
       IN  snd' = IF a \in snd.listening
                  THEN SendWrite(t, [s EXCEPT !.task[t].cached = Lookup(s.clients, a),
                                              !.task[t].writer = Lookup(s.clients, a)])
                  ELSE [snd EXCEPT !.task[t] = [pc |-> "idle"]]
    /\ UNCHANGED <<protoVars, conn, reg, api, rd, stp>>

\* "await writer.drain()" returns (ros_core.py:215-217): it raises
\* ConnectionResetError when the connection is closed or lost.
drain_returns(t) ==
    /\ snd.task[t].pc = "drain"
    /\ LET w == snd.task[t].writer
       IN  snd' = IF w \in snd.closed
                  THEN SendReturns(t, snd, "ConnectionResetError", FALSE)
                  ELSE SendReturns(t, [snd EXCEPT !.wire[w] =
                                          Append(@, snd.task[t].call)],
                                   NoException, TRUE)
    /\ UNCHANGED <<protoVars, conn, reg, api, rd, stp>>

\* A connection the transport opened is closed (by stop, or by the peer).
writer_closed(w) ==
    /\ \E a \in DOMAIN snd.clients : snd.clients[a] = w
    /\ w \notin snd.closed
    /\ snd' = [snd EXCEPT !.closed = @ \cup {w}]
    /\ UNCHANGED <<protoVars, conn, reg, api, rd, stp>>

\* The read loop that the peer runs for connection w (ros_core.py:141-162)
\* takes the next frame written to w and its handler handles it
\* (node.py:82-87); the loops of two connections are two tasks.
peer_reads(w) ==
    /\ snd.taken[w] < Len(snd.wire[w])
    /\ snd' = [snd EXCEPT !.taken[w] = @ + 1,
                          !.got = Append(@, snd.wire[w][snd.taken[w] + 1])]
    /\ UNCHANGED <<protoVars, conn, reg, api, rd, stp>>

NextSend ==
    \/ \E t \in SendTasks, d \in SendData, a \in Remotes : send_message(t, d, a)
    \/ \E t \in SendTasks, d \in SendData, w \in Writers :
          /\ w[3] <= snd.opened[w[2]]
          /\ send_message(t, d, w)
    \/ \E t \in SendTasks : connect_returns(t)
    \/ \E t \in SendTasks, a \in Remotes : send_connect_to_publisher(t, a)
    \/ \E t \in SendTasks : connect_to_returns(t)
    \/ \E t \in SendTasks : drain_returns(t)
    \/ \E w \in Writers : writer_closed(w)

SpecSend == InitSend /\ [][NextSend]_vars

\* The number of frames the tasks of the Master send to a node.
MaxRelayCalls == 3

\* The address of the subscriber, a node that has started its server.
Subscribers == {AddrStr(NodeAddress("A"))}

\* The transport of the Master: its tasks call send_message with an address
\* (master_node.py:51-120), and the node at the address reads what they
\* send.
InitRelay == InitNet(NoCalls) /\ conn = Off /\ reg = Off
             /\ snd = SendIdle(MaxRelayCalls, Subscribers) /\ api = Off /\ rd = Off /\ stp = Off

NextRelay ==
    \/ \E t \in SendTasks, a \in Subscribers : send_message(t, "json", a)
    \/ \E t \in SendTasks : connect_returns(t)
    \/ \E t \in SendTasks : drain_returns(t)
    \/ \E w \in Writers : peer_reads(w)

SpecRelay == InitRelay /\ [][NextRelay]_vars

----------------------------------------------------------------------------
\* Node.publish and Node.subscribe for one node and one topic, task by task:
\* every await of send_message is a point where the other task, or the
\* handling of a frame, may run.

\* The number of calls of publish and subscribe.
MaxApiCalls == 2

ApiTasks == {1, 2}

\* The topic of the calls.
ApiTopic == "temp"

\* The other publishers of the topic the Master may disclose.
ApiPublishers == Names

\* The node is constructed (node.py:8-19).
ApiIdle ==
    [publishers |-> {}, subscribers |-> {}, connections |-> <<>>, lost |-> {},
     peers |-> {}, task |-> [t \in ApiTasks |-> [pc |-> "idle"]], calls |-> 0,
     sends |-> <<>>, done |-> <<>>]

InitPub == InitNet(NoCalls) /\ conn = Off /\ reg = Off /\ snd = Off
           /\ api = ApiIdle /\ rd = Off /\ stp = Off

\* The subscribers in publisher_connections[topic], in the order of the dict.
Keys(connections) == [i \in 1..Len(connections) |-> connections[i].subscriber]

\* The call of task t ends: it returns, or outcome is the exception it raises.
ApiEnds(t, a, outcome) ==
    [a EXCEPT !.task[t] = [pc |-> "idle"],
              !.done = Append(@, [call |-> a.task[t].call, op |-> a.task[t].op,
                                  outcome |-> outcome,
                                  start |-> a.task[t].start])]

\* A send_message of the call of task t has returned.
ApiSent(t, a, kind, dest, ok) ==
    [a EXCEPT !.sends = Append(@, [call |-> a.task[t].call, kind |-> kind,
                                   dest |-> dest, ok |-> ok,
                                   handler |-> ApiTopic \in a.subscribers])]

\* "if topic not in self.publishers" (node.py:23).
first_publish(a) == ApiTopic \notin a.publishers

\* publish(topic, data) is called by task t (node.py:21-30): up to the await
\* in register_publisher on the first publish, else up to the await of the
\* send to the Master.
publish(t) ==
    /\ api.task[t].pc = "idle"
    /\ api.calls < MaxApiCalls
    /\ api' = [api EXCEPT !.calls = @ + 1,
                          !.task[t] = [pc |-> IF first_publish(api)
                                              THEN "register" ELSE "master",
                                       call |-> api.calls + 1, op |-> "publish",
                                       start |-> <<>>, i |-> 0, n |-> 0]]
    /\ UNCHANGED <<protoVars, conn, reg, snd, rd, stp>>

\* A publish that goes on when the registration could not be sent.
register_ignoring_failure(t, success) ==
    /\ api.task[t].pc = "register"
    /\ LET a == ApiSent(t, api, "__publisher_registration__", MasterName, success)
       IN  api' = [a EXCEPT !.publishers = @ \cup {ApiTopic},
                            !.task[t].pc = "master"]
    /\ UNCHANGED <<protoVars, conn, reg, snd, rd, stp>>

\* register_publisher's send returns (node.py:51-54, 24-30): on failure the
\* ConnectionError leaves publish; on success the topic is added to
\* self.publishers and the message goes to the Master.
register_returns(t, success) ==
    /\ api.task[t].pc = "register"
    /\ LET a == ApiSent(t, api, "__publisher_registration__", MasterName, success)
       IN  api' = IF success
                  THEN [a EXCEPT !.publishers = @ \cup {ApiTopic},
                                 !.task[t].pc = "master"]
                  ELSE ApiEnds(t, a, "ConnectionError")
    /\ UNCHANGED <<protoVars, conn, reg, snd, rd, stp>>

\* The next step of "for subscriber, writer in
\* self.publisher_connections[topic].items()" (node.py:34): the dict iterator
\* raises RuntimeError when the size of the dict has changed since the loop
\* started, and the for statement is outside the try.
next_item(t, a) ==
    LET c == a.task[t]
    IN  IF Len(a.connections) # c.n THEN ApiEnds(t, a, "RuntimeError")
        ELSE IF c.i < c.n
        THEN [a EXCEPT !.task[t].pc = "direct", !.task[t].i = c.i + 1]
        ELSE ApiEnds(t, a, "returned")

\* The send to the Master returns (node.py:30-34); its result is not looked
\* at, and the loop over the direct subscribers starts.
master_returns(t, success) ==
    /\ api.task[t].pc = "master"
    /\ LET a == ApiSent(t, api, ApiTopic, MasterName, success)
       IN  api' = next_item(t, [a EXCEPT !.task[t].n = Len(api.connections),
                                         !.task[t].start = Keys(api.connections)])
    /\ UNCHANGED <<protoVars, conn, reg, snd, rd, stp>>

\* The send to the writer of the i-th direct subscriber returns
\* (node.py:36-39): False when the connection is lost, which is logged.
direct_returns(t) ==
    /\ api.task[t].pc = "direct"
    /\ LET e == api.connections[api.task[t].i]
           a == ApiSent(t, api, ApiTopic, e.subscriber, e.writer \notin api.lost)
       IN  api' = next_item(t, a)
    /\ UNCHANGED <<protoVars, conn, reg, snd, rd, stp>>

\* A subscribe that raises whatever the send reports.
subscribe_raises(t, success) ==
    /\ api.task[t].pc = "subscribe"
    /\ api' = ApiEnds(t, ApiSent(t, api, "__subscriber_registration__",
                                 MasterName, success), "ConnectionError")
    /\ UNCHANGED <<protoVars, conn, reg, snd, rd, stp>>

\* subscribe(topic, callback) is called by task t (node.py:147-160): the
\* callback is recorded, then the registration goes to the Master.
subscribe(t) ==
    /\ api.task[t].pc = "idle"
    /\ api.calls < MaxApiCalls
    /\ api' = [api EXCEPT !.calls = @ + 1,
                          !.subscribers = @ \cup {ApiTopic},
                          !.task[t] = [pc |-> "subscribe", call |-> api.calls + 1,
                                       op |-> "subscribe", start |-> <<>>,
                                       i |-> 0, n |-> 0]]
    /\ UNCHANGED <<protoVars, conn, reg, snd, rd, stp>>

\* The send of the subscriber registration returns (node.py:160-165).
subscribe_returns(t, success) ==
    /\ api.task[t].pc = "subscribe"
    /\ api' = ApiEnds(t, ApiSent(t, api, "__subscriber_registration__",
                                 MasterName, success),
                      IF success THEN "returned" ELSE "ConnectionError")
    /\ UNCHANGED <<protoVars, conn, reg, snd, rd, stp>>

\* handle_message on a __subscribe__ from s (node.py:62-71): the writer of
\* the connection is stored under the subscriber's name.
handle_subscribe(s) ==
    /\ \A i \in 1..Len(api.connections) : api.connections[i].subscriber # s
    /\ api' = [api EXCEPT !.connections =
                              Append(@, [subscriber |-> s, writer |-> s])]
    /\ UNCHANGED <<protoVars, conn, reg, snd, rd, stp>>

\* The connection a direct subscriber opened is lost (one of them, in a run).
connection_lost(s) ==
    /\ \E i \in 1..Len(api.connections) : api.connections[i].writer = s
    /\ api.lost = {}
    /\ api' = [api EXCEPT !.lost = @ \cup {s}]
    /\ UNCHANGED <<protoVars, conn, reg, snd, rd, stp>>

\* handle_message on a __publisher_info__ naming p (node.py:73-75,
\* 120-130): connect_to_publisher opens a connection to p.
handle_publisher_info(p) ==
    /\ ApiTopic \in api.subscribers
    /\ <<p, "connect_to_publisher">> \notin api.peers
    /\ api' = [api EXCEPT !.peers = @ \cup {<<p, "connect_to_publisher">>}]
    /\ UNCHANGED <<protoVars, conn, reg, snd, rd, stp>>

\* The application publishes from two tasks while peers subscribe.
NextPub ==
    \/ \E t \in ApiTasks : publish(t)
    \/ \E t \in ApiTasks, ok \in BOOLEAN : register_returns(t, ok)
    \/ \E t \in ApiTasks, ok \in BOOLEAN : master_returns(t, ok)
    \/ \E t \in ApiTasks : direct_returns(t)
    \/ \E s \in Names : handle_subscribe(s)
    \/ \E s \in Names : connection_lost(s)

SpecPub == InitPub /\ [][NextPub]_vars

\* The application subscribes from two tasks while the Master discloses
\* publishers.
NextSub ==
    \/ \E t \in ApiTasks : subscribe(t)
    \/ \E t \in ApiTasks, ok \in BOOLEAN : subscribe_returns(t, ok)
    \/ \E p \in ApiPublishers : handle_publisher_info(p)

SpecSub == InitPub /\ [][NextSub]_vars

----------------------------------------------------------------------------
\* The receivers of ros_core.py.  A peer writes frames with send_message
\* (ros_core.py:210-215) on a connection that the read loop of
\* handle_connection (ros_core.py:141-174) serves; a second peer writes the
\* same documents to a NodeProtocol (ros_core.py:77-103), which parses its
\* whole buffer as one document.  Bytes are integers; the transport hands
\* them over in chunks of any size from 1 to MaxChunk.

MaxFrames == 2
MaxChunk == 3
HeaderLen == 4
FrameData == 1 .. 2

\* Message.to_network (ros_core.py:70-71): the JSON document of the message,
\* "{" (123), the digit of its data, "}" (125).
to_network(m) == <<123, 48 + m, 125>>

\* Message.from_network (ros_core.py:73-75): json.loads accepts exactly one
\* complete document; on anything else deserialize logs and re-raises the
\* decoder's own exception (ros_core.py:57-59).
from_network(data) ==
    IF Len(data) = 3 /\ data[1] = 123 /\ data[3] = 125 /\ data[2] - 48 \in FrameData
    THEN [message |-> data[2] - 48, error |-> NoException]
    ELSE [message |-> 0, error |-> "JSONDecodeError"]

\* len(data).to_bytes(4, 'big') (ros_core.py:211).
to_bytes(n) ==
    <<(n \div 16777216) % 256, (n \div 65536) % 256, (n \div 256) % 256, n % 256>>

\* int.from_bytes(size_data, 'big') (ros_core.py:153).
from_bytes(b) == b[1] * 16777216 + b[2] * 65536 + b[3] * 256 + b[4]

\* size_bytes + data (ros_core.py:214).
Frame(m) == to_bytes(Len(to_network(m))) \o to_network(m)

Drop(s, k) == SubSeq(s, k + 1, Len(s))

Take(s, k) == SubSeq(s, 1, k)

\* What the peer of the NodeProtocol writes: one document per message.
RECURSIVE PeerOutput(_)
PeerOutput(k) == IF k = 0 THEN <<>> ELSE PeerOutput(k - 1) \o to_network(1 + ((k - 1) % 2))

\* The connection before anything was written; the read loop awaits
\* readexactly(4) (ros_core.py:149) and the protocol's buffer is empty
\* (ros_core.py:81).
RecvIdle ==
    [written |-> <<>>, wire |-> <<>>, arrived |-> <<>>, reader |-> <<>>,
     eof |-> FALSE, pc |-> "size", message_size |-> 0, events |-> <<>>,
     waited |-> FALSE,
     fed |-> <<>>, buffer |-> <<>>, got |-> <<>>]

InitRecv == InitNet(NoCalls) /\ conn = Off /\ reg = Off /\ snd = Off
            /\ api = Off /\ rd = RecvIdle /\ stp = Off

\* writer.write(size_bytes + data) (ros_core.py:210-214): one call writes the
\* whole frame.
write_frame(m) ==
    /\ Len(rd.written) < MaxFrames
    /\ ~rd.eof
    /\ rd' = [rd EXCEPT !.written = Append(@, m), !.wire = @ \o Frame(m)]
    /\ UNCHANGED <<protoVars, conn, reg, snd, api, stp>>

\* The transport hands the next k bytes to the StreamReader that readexactly
\* reads from (ros_core.py:149, 155).
feed_data(k) ==
    /\ k <= Len(rd.wire)
    /\ rd' = [rd EXCEPT !.wire = Drop(@, k),
                        !.reader = @ \o Take(rd.wire, k),
                        !.arrived = @ \o Take(rd.wire, k)]
    /\ UNCHANGED <<protoVars, conn, reg, snd, api, stp>>

\* The peer's end of the connection is gone; what was still on the way is
\* lost.
feed_eof ==
    /\ ~rd.eof
    /\ rd' = [rd EXCEPT !.eof = TRUE, !.wire = <<>>]
    /\ UNCHANGED <<protoVars, conn, reg, snd, api, stp>>

\* "size_data = await reader.readexactly(4)" returns (ros_core.py:149-153).
read_size ==
    /\ rd.pc = "size"
    /\ Len(rd.reader) >= HeaderLen
    /\ rd' = [rd EXCEPT !.message_size = from_bytes(Take(rd.reader, HeaderLen)),
                        !.reader = Drop(@, HeaderLen),
                        !.pc = "data"]
    /\ UNCHANGED <<protoVars, conn, reg, snd, api, stp>>

\* A read loop that starts the handler as a task of its own.
create_task_handler(r, m) ==
    [r EXCEPT !.pc = "size", !.events = Append(@, <<"start", m>>)]

\* "await message_handler(message)" (ros_core.py:159-162): the loop goes on
\* only after the handler has returned.
await_handler(r, m) ==
    [r EXCEPT !.pc = "handler", !.events = Append(@, <<"start", m>>)]

\* "data = await reader.readexactly(message_size)" returns (ros_core.py:155-
\* 162, 168-170): the message is decoded and handed to the handler; a frame
\* that does not decode is logged and the loop continues.
read_data ==
    /\ rd.pc = "data"
    /\ Len(rd.reader) >= rd.message_size
    /\ LET data == Take(rd.reader, rd.message_size)
           r == [rd EXCEPT !.reader = Drop(@, rd.message_size)]
       IN  rd' = IF from_network(data).error = NoException
                 THEN await_handler(r, from_network(data).message)
                 ELSE [r EXCEPT !.pc = "size"]
    /\ UNCHANGED <<protoVars, conn, reg, snd, api, stp>>

\* The handler returns or raises (ros_core.py:159-170): either way the loop
\* reads the next frame.
handler_returns ==
    /\ rd.pc = "handler"
    /\ rd' = [rd EXCEPT !.pc = "size",
                        !.events = Append(@, <<"end", rd.events[Len(rd.events)][2]>>),
                        !.waited = @ \/ Len(rd.reader) >= Len(Frame(1))]
    /\ UNCHANGED <<protoVars, conn, reg, snd, api, stp>>

\* readexactly raises IncompleteReadError at the end of the stream
\* (ros_core.py:164-166, 172-174): the loop ends and the writer is closed.
incomplete_read ==
    /\ rd.eof
    /\ \/ rd.pc = "size" /\ Len(rd.reader) < HeaderLen
       \/ rd.pc = "data" /\ Len(rd.reader) < rd.message_size
    /\ rd' = [rd EXCEPT !.pc = "closed"]
    /\ UNCHANGED <<protoVars, conn, reg, snd, api, stp>>

\* The text that data_received looks for at the start of str(e)
\* (ros_core.py:96); it is the text of the log line of ros_core.py:58.
LoggedPrefix == "Deserialization error"

\* NodeProtocol.data_received(data) with the next k bytes of the peer's
\* output (ros_core.py:89-98).  The whole buffer is parsed as one document.
\* When that fails str(e) is the text of the decoder's exception, and the
\* buffer is kept only if that text starts with LoggedPrefix.
data_received(k) ==
    /\ Len(rd.fed) + k <= Len(PeerOutput(MaxFrames))
    /\ LET data == SubSeq(PeerOutput(MaxFrames), Len(rd.fed) + 1, Len(rd.fed) + k)
           buffer == rd.buffer \o data
       IN  rd' = [rd EXCEPT !.fed = @ \o data,
                            !.buffer = IF from_network(buffer).error = NoException
                                       THEN <<>>
                                       ELSE IF from_network(buffer).error = LoggedPrefix
                                       THEN buffer
                                       ELSE <<>>,
                            !.got = IF from_network(buffer).error = NoException
                                    THEN Append(@, from_network(buffer).message)
                                    ELSE @]
    /\ UNCHANGED <<protoVars, conn, reg, snd, api, stp>>

NextRecv ==
    \/ \E m \in FrameData : write_frame(m)
    \/ \E k \in 1 .. MaxChunk : feed_data(k)
    \/ feed_eof
    \/ read_size
    \/ read_data
    \/ handler_returns
    \/ incomplete_read
    \/ \E k \in 1 .. MaxChunk : data_received(k)

SpecRecv == InitRecv /\ [][NextRecv]_vars

----------------------------------------------------------------------------
\* NetworkNode.stop and Node.stop (ros_core.py:223-234, node.py:196-199) on
\* a node whose server task runs NetworkNode.start (ros_core.py:115-139) and
\* whose outbound cache is filled by connect_to (ros_core.py:186).  The cache
\* is a sequence of [address, state] in insertion order, the order in which
\* stop walks self.clients.values().

MaxStopCalls == 3
MaxConnections == 3

\* Node.__init__ and NetworkNode.__init__ (node.py:8-19, ros_core.py:107-113):
\* no server, not running, nothing cached.
StopIdle ==
    [is_running |-> TRUE, running |-> FALSE, server |-> "None",
     clients |-> <<>>, start |-> "idle", connects |-> 0, stops |-> <<>>]

InitStop == InitNet(NoCalls) /\ conn = Off /\ reg = Off /\ snd = Off
            /\ api = Off /\ rd = Off /\ stp = StopIdle

\* What stop() is to leave in place: the fields it writes.
StopState(s) ==
    [is_running |-> s.is_running, running |-> s.running, server |-> s.server,
     clients |-> s.clients]

\* NetworkNode.start is called and awaits asyncio.start_server
\* (ros_core.py:115-123).
start ==
    /\ stp.start = "idle"
    /\ stp' = [stp EXCEPT !.start = "start_server"]
    /\ UNCHANGED <<protoVars, conn, reg, snd, api, rd>>

\* asyncio.start_server returns (ros_core.py:119-139): the server listens,
\* running is set and the task waits in serve_forever; or the port cannot be
\* bound and the exception is logged and raised.
start_server_returns(bound) ==
    /\ stp.start = "start_server"
    /\ stp' = IF bound
              THEN [stp EXCEPT !.server = "serving", !.running = TRUE,
                               !.start = "serve_forever"]
              ELSE [stp EXCEPT !.start = "raised"]
    /\ UNCHANGED <<protoVars, conn, reg, snd, api, rd>>

\* "self.clients[str(remote_address)] = writer" (ros_core.py:186): a new
\* open writer takes the place of the one cached for the address, or is
\* added at the end of the dict.
cache(clients, a) ==
    IF \E i \in DOMAIN clients : clients[i].address = a
    THEN [i \in DOMAIN clients |->
             IF clients[i].address = a THEN [address |-> a, state |-> "open"]
             ELSE clients[i]]
    ELSE Append(clients, [address |-> a, state |-> "open"])

stop_connect_to(a) ==
    /\ stp.connects < MaxConnections
    /\ stp' = [stp EXCEPT !.clients = cache(@, a), !.connects = @ + 1]
    /\ UNCHANGED <<protoVars, conn, reg, snd, api, rd>>

\* A stop() without the try around writer.close(): the first close that
\* raises ends the loop and leaves stop.
close_unguarded(clients, raising) ==
    LET Raises(i) == clients[i].state = "open" /\ clients[i].address \in raising
        first == IF \E i \in DOMAIN clients : Raises(i)
                 THEN CHOOSE i \in DOMAIN clients :
                          Raises(i) /\ \A j \in 1 .. i - 1 : ~Raises(j)
                 ELSE 0
    IN  [clients |-> [i \in DOMAIN clients |->
                         IF first = 0 \/ i <= first
                         THEN [clients[i] EXCEPT !.state = "closed"]
                         ELSE clients[i]],
         raised |-> IF first = 0 THEN NoException ELSE "Exception",
         suppressed |-> 0]

\* "for writer in self.clients.values(): try: writer.close() except
\* Exception: pass" (ros_core.py:230-234).  The transport of a writer is
\* marked closing before close() does anything that can raise, and close()
\* on a closing transport returns at once; the writers in raising are those
\* whose close() raises.
close_clients(clients, raising) ==
    [clients |-> [i \in DOMAIN clients |-> [clients[i] EXCEPT !.state = "closed"]],
     raised |-> NoException,
     suppressed |-> Cardinality({i \in DOMAIN clients :
                        clients[i].state = "open" /\ clients[i].address \in raising})]

\* Node.stop() (node.py:196-199) with NetworkNode.stop() (ros_core.py:223-
\* 234): running is cleared, a server that exists is closed, which cancels
\* serve_forever, and every cached writer is closed.
stop(raising) ==
    /\ Len(stp.stops) < MaxStopCalls
    /\ LET c == close_clients(stp.clients, raising)
           s == [stp EXCEPT !.is_running = FALSE,
                            !.running = FALSE,
                            !.server = IF @ = "None" THEN "None" ELSE "closed",
                            !.start = IF @ = "serve_forever" THEN "cancelled" ELSE @,
                            !.clients = c.clients]
       IN  stp' = [s EXCEPT !.stops = Append(@,
                       [before |-> StopState(stp), after |-> StopState(s),
                        raised |-> c.raised, suppressed |-> c.suppressed,
                        start |-> stp.start])]
    /\ UNCHANGED <<protoVars, conn, reg, snd, api, rd>>

NextStop ==
    \/ start
    \/ \E bound \in BOOLEAN : start_server_returns(bound)
    \/ \E a \in Remotes : stop_connect_to(a)
    \/ \E raising \in SUBSET Remotes : stop(raising)

SpecStop == InitStop /\ [][NextStop]_vars

----------------------------------------------------------------------------
\* The read loops of NetworkNode.handle_connection (ros_core.py:141-174), one
\* per accepted connection, frame by frame, with the handler of a node
\* (node.py:56-89) and NetworkNode.stop (ros_core.py:223-234).  A frame is
\* in the inbox of a connection once all its bytes have arrived.

MaxLoopFrames == 3
LoopConns == {1, 2}
LoopTopics == {"t1", "t2"}

\* What a peer can put into a frame: a message of a topic, or bytes that
\* Message.from_network rejects.
LoopPayloads == LoopTopics \cup {"garbled"}

\* How the handling of a message can end: handle_message returns after the
\* callback returned, or after it logged the callback's exception
\* (node.py:82-87), or the handler itself raises an exception (other than
\* IncompleteReadError, which ends the loop wherever it comes from).
HandlerOutcomes == {"returned", "callback raised", "handler raised"}

\* The transport runs (ros_core.py:134); two connections were accepted and
\* their loops wait in readexactly (ros_core.py:149).
LoopIdle ==
    [running |-> TRUE,
     socket |-> [c \in LoopConns |-> "open"],
     inbox |-> [c \in LoopConns |-> <<>>],
     pc |-> [c \in LoopConns |-> "read"],
     taken |-> [c \in LoopConns |-> <<>>],
     handled |-> [c \in LoopConns |-> <<>>],
     lap |-> [c \in LoopConns |-> 0],
     frames |-> 0]

InitLoop == InitNet(NoCalls) /\ conn = Off /\ reg = Off /\ snd = Off
            /\ api = Off /\ rd = LoopIdle /\ stp = Off

\* The peer of connection c has written a frame and all of it has arrived.
frame_received(c, payload) ==
    /\ rd.socket[c] = "open"
    /\ rd.frames < MaxLoopFrames
    /\ rd' = [rd EXCEPT !.frames = @ + 1,
                        !.inbox[c] = Append(@, [payload |-> payload])]
    /\ UNCHANGED <<protoVars, conn, reg, snd, api, stp>>

\* "while self.running" (ros_core.py:146) at the end of an iteration: the
\* loop waits in readexactly again, or leaves and closes the writer
\* (ros_core.py:172-174).
next_iteration(r, c) ==
    [r EXCEPT !.pc[c] = IF r.running THEN "read" ELSE "closed"]

\* A loop that gives up on the first error.
break_on_error(r, c) == [r EXCEPT !.pc[c] = "closed"]

\* "except Exception as e: logger.error(...); continue" (ros_core.py:168-170).
continue_on_error(r, c) == next_iteration(r, c)

\* The two readexactly calls return a whole frame (ros_core.py:149-162): a
\* payload that does not decode raises in from_network; a message goes to
\* the handler.  A reader on which an exception was set returns nothing it
\* has buffered.
read_frame(c) ==
    /\ rd.pc[c] = "read"
    /\ rd.socket[c] # "reset"
    /\ rd.inbox[c] # <<>>
    /\ LET f == Head(rd.inbox[c])
           r == [rd EXCEPT !.inbox[c] = Tail(@), !.taken[c] = Append(@, f)]
       IN  rd' = IF f.payload = "garbled"
                 THEN continue_on_error(r, c)
                 ELSE [r EXCEPT !.pc[c] = "handler"]
    /\ UNCHANGED <<protoVars, conn, reg, snd, api, stp>>

\* "await message_handler(message)" ends (ros_core.py:159-170, node.py:82-89).
handler_ends(c, outcome) ==
    /\ rd.pc[c] = "handler"
    /\ LET f == rd.taken[c][Len(rd.taken[c])]
           r == [rd EXCEPT !.handled[c] =
                     Append(@, [topic |-> f.payload, outcome |-> outcome])]
       IN  rd' = IF outcome = "handler raised"
                 THEN continue_on_error(r, c)
                 ELSE next_iteration(r, c)
    /\ UNCHANGED <<protoVars, conn, reg, snd, api, stp>>

\* readexactly raises (ros_core.py:164-170): IncompleteReadError at the end
\* of the stream ends the loop; the exception of a failed connection is
\* raised by every read, without suspending, and is handled by the general
\* clause, which goes round again.  lap tells the laps of the loop apart.
read_fails(c) ==
    /\ rd.pc[c] = "read"
    /\ \/ rd.socket[c] = "eof" /\ rd.inbox[c] = <<>>
       \/ rd.socket[c] = "reset"
    /\ rd' = IF rd.socket[c] = "eof"
             THEN [rd EXCEPT !.pc[c] = "closed"]
             ELSE continue_on_error([rd EXCEPT !.lap[c] = 1 - @], c)
    /\ UNCHANGED <<protoVars, conn, reg, snd, api, stp>>

\* The peer closes connection c, between frames or in the middle of one.
peer_closes(c) ==
    /\ rd.socket[c] = "open"
    /\ rd' = [rd EXCEPT !.socket[c] = "eof"]
    /\ UNCHANGED <<protoVars, conn, reg, snd, api, stp>>

\* Connection c fails (reset by the peer, network error).
connection_fails(c) ==
    /\ rd.socket[c] = "open"
    /\ rd' = [rd EXCEPT !.socket[c] = "reset"]
    /\ UNCHANGED <<protoVars, conn, reg, snd, api, stp>>

\* NetworkNode.stop() (ros_core.py:223-234): running is cleared; the server
\* and the outbound writers are closed, the accepted connections are not.
stop_running ==
    /\ rd.running
    /\ rd' = [rd EXCEPT !.running = FALSE]
    /\ UNCHANGED <<protoVars, conn, reg, snd, api, stp>>

NextLoop ==
    \/ \E c \in LoopConns, p \in LoopPayloads : frame_received(c, p)
    \/ \E c \in LoopConns : read_frame(c)
    \/ \E c \in LoopConns, o \in HandlerOutcomes : handler_ends(c, o)
    \/ \E c \in LoopConns : read_fails(c)
    \/ \E c \in LoopConns : peer_closes(c)
    \/ \E c \in LoopConns : connection_fails(c)
    \/ stop_running

SpecLoop == InitLoop /\ [][NextLoop]_vars

\* The event loop runs every task that is ready: a loop whose read can
\* return or raise goes on, a handler ends.
FairnessLoop ==
    \A c \in LoopConns :
        /\ WF_vars(read_frame(c))
        /\ WF_vars(read_fails(c))
        /\ WF_vars(\E o \in HandlerOutcomes : handler_ends(c, o))

FairSpecLoop == SpecLoop /\ FairnessLoop

----------------------------------------------------------------------------
\* The outcome of the two calls

\* C6: register_with_master returns only when the send succeeded and a
\* confirmation was handled by the node before the timeout expired; it raises
\* when the send failed, or when the send succeeded and the timeout expired
\* with no confirmation handled, and in no other case.
C6_RegistrationOutcome ==
    /\ reg.pc = "returned" =>
          /\ reg.success /\ reg.confirmed /\ reg.confirms >= 1
          /\ reg.clock <= RegistrationTimeout
    /\ reg.pc = "raised" =>
          \/ ~reg.success /\ reg.error = SendFailed
          \/ /\ reg.success /\ reg.error = NotConfirmed
             /\ ~reg.confirmed /\ reg.clock = RegistrationTimeout

\* A registration was confirmed while the node was waiting, and the call
\* returned.
C6_Witness ==
    /\ reg.pc = "returned" /\ reg.clock > 0 /\ reg.confirms = 1 /\ reg.calls = 1

\* C10: connect_to fails only after exactly connection_retries attempts, with
\* one delay between consecutive attempts and none after the last, raises the
\* failure of the last attempt and leaves the cache as it was.
C10_RetryBound ==
    /\ conn.pc # "off" =>
          /\ Len(conn.tried) <= connection_retries
          /\ \A i \in 1..Len(conn.delays) : conn.delays[i] = RetryDelay
          /\ conn.pc = "attempt" => Len(conn.delays) = Len(conn.tried)
          /\ conn.pc = "sleep" => Len(conn.delays) + 1 = Len(conn.tried)
    /\ conn.pc = "raised" =>
          /\ Len(conn.tried) = connection_retries
          /\ Len(conn.delays) = connection_retries - 1
          /\ conn.raised = conn.tried[connection_retries]
          /\ conn.clients = conn.clients0
          /\ \A i \in 1..connection_retries : conn.tried[i] \in ConnectErrors

\* Every attempt of a call was refused, the last one differently from the
\* first, and the call has failed.
C10_Witness ==
    /\ conn.pc = "raised"
    /\ Len(conn.tried) = connection_retries
    /\ conn.tried[1] # conn.tried[connection_retries]
    /\ conn.raised = conn.tried[connection_retries]


----------------------------------------------------------------------------
\* Properties

\* Message uid was passed to a callback of node n, having arrived over `via`.
Delivered(uid, n, via) ==
    \E k \in 1..Len(callbacks[n]) : callbacks[n][k].uid = uid /\ callbacks[n][k].via = via

\* The number of times message uid was passed to a callback of node n.
Invocations(uid, n) ==
    Cardinality({k \in 1..Len(callbacks[n]) : callbacks[n][k].uid = uid})

\* The relays still due: the Master started relaying uid while n had an entry
\* for its topic, n is up, and n's callback has not had it from the Master.
RelayPending == {e \in owed : Alive(e[2]) /\ ~Delivered(e[1], e[2], "relay")}

\* C1: relay fan-out.  Every application message the Master starts to relay
\* (read from a publisher's connection or queued by the shell) is eventually
\* delivered over the relay path to every node that had an entry in
\* subscribers[topic] at that moment and stays up, whatever happens to the
\* sends to the other entries.
C1_RelayFanOut == []<>(RelayPending = {})

\* A message was relayed to a node although the send to another entry of the
\* same topic failed because that node's process had ended.
C1_Witness ==
    \E e \in owed, f \in owed :
        /\ e[1] = f[1]
        /\ Delivered(e[1], e[2], "relay")
        /\ ~Alive(f[2]) /\ ~Delivered(f[1], f[2], "relay")

\* Nothing is left to run: every frame written to a connection that is read
\* has been handled, every handler has returned, no command is queued.
Quiescent ==
    /\ command_queue = <<>>
    /\ \A c \in Conns : mtask[c] = Reading
    /\ \A n \in Names : toMaster[n] = <<>>
    /\ \A n \in Names : Alive(n) => toNode[n] = <<>>
    /\ \A e \in DOMAIN direct : Alive(e[2]) => direct[e] = <<>>

\* The publishers named by the disclosures of a subscription, and the number
\* of disclosures naming p.
Completed == {u \in DOMAIN disclosed : disclosed[u].done}

\* C2: the Master answers a subscription with exactly one __publisher_info__
\* naming P for every P whose publisher registration for the topic it handled
\* before the subscription.
C2_ExactlyOnePublisherInfo ==
    \A u \in Completed : \A p \in Names :
        CountName(disclosed[u].snap, p) >= 1 => CountName(disclosed[u].sent, p) = 1

\* C3: what a subscription is sent is the list publishers[topic] as it was when
\* the Master started handling the subscription, and never a publisher that
\* registered later.
C3_DisclosureIsSnapshot ==
    \A u \in DOMAIN disclosed :
        /\ IsPrefix(disclosed[u].sent, disclosed[u].snap)
        /\ disclosed[u].done => disclosed[u].sent = disclosed[u].snap

\* C4: a message published once the subscriber's direct connection is complete
\* reaches the subscriber's callback once or twice.
C4_OnceOrTwice ==
    Quiescent =>
        \A e \in directSent : Alive(e[2]) => Invocations(e[1], e[2]) \in {1, 2}

\* C5: a message published once the subscriber's direct connection is complete
\* is eventually dispatched to the subscriber's callback over that connection.
C5_DirectDelivery ==
    []<>(\A e \in directSent : ~Alive(e[2]) \/ Delivered(e[1], e[2], "direct"))

\* The scenario of C7: A published {"v": 42} on "temp" before B started, and B
\* has subscribed to "temp".
Scenario ==
    /\ phase["B"] = "started"
    /\ "temp" \in nsubscribers["B"]
    /\ \E r \in constructed :
          /\ r.uid \in known["B"] /\ r.uid[1] = "A"
          /\ r.topic = "temp" /\ r.data = [v |-> 42]

Observed(n, topic, data) ==
    \E k \in 1..Len(callbacks[n]) :
        callbacks[n][k].topic = topic /\ callbacks[n][k].data = data

C8_NoControlInCallback ==
    \A n \in Names : \A k \in 1..Len(callbacks[n]) :
        callbacks[n][k].topic \notin ControlTopics

\* C9: two Message instances never carry the same message_id, and a relayed
\* message is delivered with the id it was constructed with.
C9_UniqueMessageId ==
    /\ \A r1 \in constructed, r2 \in constructed :
          r1.uid # r2.uid => r1.message_id # r2.message_id
    /\ \A n \in Names : \A k \in 1..Len(callbacks[n]) :
          \E r \in constructed :
              r.uid = callbacks[n][k].uid /\ r.message_id = callbacks[n][k].message_id

\* C11: a call of send_message never ends with an exception; it returns True
\* exactly when the frame was written and drained, and False otherwise.
C11_SendNeverRaises ==
        \A i \in 1..Len(snd.log) :
            /\ snd.log[i].result \in {"True", "False"}
            /\ snd.log[i].result = "True" <=> snd.log[i].flushed
            /\ snd.log[i].flushed =>
                  \E k \in 1..Len(snd.wire[snd.log[i].writer]) :
                      snd.wire[snd.log[i].writer][k] = snd.log[i].call

\* A send to an unreachable address and a send on a closed writer both
\* returned False.
C11_Witness ==
    /\ \E i \in 1..Len(snd.log), j \in 1..Len(snd.log) :
          /\ snd.log[i].result = "False" /\ snd.log[i].dest \in Remotes \ Reachable
          /\ snd.log[j].result = "False" /\ snd.log[j].writer \in snd.closed

\* C17: a send_message to an address whose connection is in the cache when the
\* call starts opens no connection and writes to that cached connection; a
\* connection that connect_to opened is cached under the address string.
C17_ConnectionReuse ==
        /\ \A i \in 1..Len(snd.log) :
              snd.log[i].cached # None =>
                  /\ ~snd.log[i].opened
                  /\ snd.log[i].writer = snd.log[i].cached
        /\ \A a \in Remotes :
              snd.opened[a] > 0 =>
                  /\ a \in DOMAIN snd.clients
                  /\ snd.clients[a] = Writer(a, snd.opened[a])

\* A second send to an address was flushed on the connection the first one
\* opened.
C17_Witness ==
    /\ \E i \in 1..Len(snd.log), j \in 1..Len(snd.log) :
          /\ snd.log[i].opened /\ snd.log[i].call < snd.log[j].call
          /\ snd.log[j].dest = snd.log[i].dest
          /\ snd.log[j].cached = snd.log[i].writer
          /\ snd.log[j].flushed

\* The sends of a kind to a destination made by a call (0: by any call).
ApiSends(call, kind, dest) ==
    {k \in 1..Len(api.sends) :
        /\ call \in {0, api.sends[k].call}
        /\ api.sends[k].kind = kind /\ api.sends[k].dest = dest}

\* C12: a node sends at most one __publisher_registration__ for a topic,
\* whatever the interleaving of its publish calls.
C12_RegistersPublisherOnce ==
    Cardinality({k \in ApiSends(0, "__publisher_registration__", MasterName) :
                    api.sends[k].ok}) <= 1

\* C13: a publish call in which the send to a direct subscriber failed has
\* attempted the Master once and every direct subscriber of the topic once.
C13_PublishFailureIsolation ==
    \A d \in 1..Len(api.done) :
        LET c == api.done[d]
        IN  (/\ c.op = "publish"
             /\ \E k \in 1..Len(api.sends) :
                   /\ api.sends[k].call = c.call /\ ~api.sends[k].ok
                   /\ api.sends[k].dest # MasterName)
            => /\ Cardinality(ApiSends(c.call, ApiTopic, MasterName)) = 1
               /\ \A i \in 1..Len(c.start) :
                     Cardinality(ApiSends(c.call, ApiTopic, c.start[i])) = 1

\* C14: subscribe records the callback before it sends the registration, sends
\* it to the Master only, returns when the send succeeded and raises
\* ConnectionError exactly when it failed; every connection to a peer is
\* opened by connect_to_publisher.
C14_SubscribeOutcome ==
    /\ \A d \in 1..Len(api.done) :
          LET c == api.done[d]
          IN  c.op = "subscribe" =>
                 /\ ApiTopic \in api.subscribers
                 /\ \E k \in 1..Len(api.sends) :
                       /\ api.sends[k].call = c.call
                       /\ api.sends[k].kind = "__subscriber_registration__"
                       /\ api.sends[k].dest = MasterName
                       /\ api.sends[k].handler
                       /\ api.sends[k].ok <=> c.outcome = "returned"
                       /\ ~api.sends[k].ok <=> c.outcome = "ConnectionError"
                 /\ \A k \in 1..Len(api.sends) :
                       api.sends[k].call = c.call => api.sends[k].dest = MasterName
    /\ \A x \in api.peers : x[2] = "connect_to_publisher"

\* One subscribe call returned and another raised, and a peer connection was
\* opened on a __publisher_info__.
C14_Witness ==
    /\ \E d \in 1..Len(api.done), e \in 1..Len(api.done) :
          /\ api.done[d].op = "subscribe" /\ api.done[d].outcome = "returned"
          /\ api.done[e].op = "subscribe" /\ api.done[e].outcome = "ConnectionError"
    /\ api.peers # {}

\* C15: on one connection the handler is invoked on the frames in the order
\* the sender wrote them, and the handling of frame k has ended before the
\* handling of frame k+1 starts.
C15_PerConnectionFIFO ==
    \A i \in 1 .. Len(rd.events) :
        /\ (i + 1) \div 2 <= Len(rd.written)
        /\ rd.events[i] = <<IF i % 2 = 1 THEN "start" ELSE "end",
                            rd.written[(i + 1) \div 2]>>

\* Two frames were handled, and the second was wholly in the reader while
\* the handler of the first was still running.
C15_Witness ==
    /\ Len(rd.events) = 4
    /\ rd.waited
    /\ rd.written[1] # rd.written[2]

\* C16: a receiver that has been fed only a part of a frame invokes no
\* handler for it, raises nothing fatal and keeps the bytes; it dispatches
\* the message once the rest has arrived.  For the read loop: the bytes that
\* arrived are those of the frames handed to the handler, a header already
\* read, and the bytes still in the reader, and the loop ends only at the
\* end of the stream.  For NodeProtocol: one message was dispatched per
\* complete document fed, and the buffer holds the bytes fed since.
C16_FramingPartiality ==
    LET started == (Len(rd.events) + 1) \div 2
        DocLen == Len(to_network(1))
    IN  /\ rd.pc # "closed" =>
               started * Len(Frame(1)) + (IF rd.pc = "data" THEN HeaderLen ELSE 0)
                   + Len(rd.reader) = Len(rd.arrived)
        /\ rd.pc = "closed" => rd.eof
        /\ Len(rd.got) = Len(rd.fed) \div DocLen
        /\ rd.buffer = SubSeq(rd.fed, Len(rd.fed) - (Len(rd.fed) % DocLen) + 1,
                              Len(rd.fed))

\* C18: when stop() returns nothing was raised, the transport is not
\* running, no server is listening and every writer of the outbound cache
\* is closed, also when stop() is called before start or a close raises; a
\* stop() called in the state that a stop() left behind changes nothing.
C18_StopIdempotentComplete ==
    \A i \in DOMAIN stp.stops :
        LET c == stp.stops[i]
        IN  /\ c.raised = NoException
            /\ ~c.after.running
            /\ ~c.after.is_running
            /\ c.after.server # "serving"
            /\ Len(c.after.clients) = Len(c.before.clients)
            /\ \A j \in DOMAIN c.after.clients :
                   /\ c.after.clients[j].state = "closed"
                   /\ c.after.clients[j].address = c.before.clients[j].address
            /\ (i > 1 /\ c.before = stp.stops[i - 1].after) => c.after = c.before

\* stop() before start, then stop() on a serving node with two open
\* connections, one of whose close raised, then stop() once more.
C18_Witness ==
    /\ Len(stp.stops) = 3
    /\ stp.stops[1].start = "idle"
    /\ stp.stops[2].before.server = "serving"
    /\ Len(stp.stops[2].before.clients) = 2
    /\ \A j \in 1 .. 2 : stp.stops[2].before.clients[j].state = "open"
    /\ stp.stops[2].suppressed = 1
    /\ stp.stops[3].before = stp.stops[2].after

\* C19: the handling of every __subscriber_registration__ ends with an entry
\* for its node_name in subscribers[topic], whether or not the node is in
\* nodes and whether or not the topic has publishers.
C19_SubscriberAlwaysAppended ==
    \A u \in Completed :
        /\ disclosed[u].topic \in DOMAIN subscribers
        /\ CountName(subscribers[disclosed[u].topic], disclosed[u].name) >= 1

\* The Master's read loop for connection c takes a
\* __publisher_registration__ of a node that is not a key of nodes.
HandlesUnknownPublisher(c) ==
    /\ mtask[c].pc = "read"
    /\ toMaster[c] # <<>>
    /\ toMaster' = [toMaster EXCEPT ![c] = Tail(@)]
    /\ Head(toMaster[c]).topic = "__publisher_registration__"
    /\ Head(toMaster[c]).data.node_name \notin DOMAIN nodes

\* C20: a __publisher_registration__ of an unknown node is dropped: nodes,
\* publishers and subscribers stay as they are, nothing is sent, and every
\* connection's read loop, this one included, is where it was, ready for
\* the next frame.
C20_UnknownPublisherDropped ==
    [][\A c \in Names :
          HandlesUnknownPublisher(c) =>
              /\ nodes' = nodes
              /\ publishers' = publishers
              /\ subscribers' = subscribers
              /\ toNode' = toNode
              /\ mclients' = mclients
              /\ mtask' = mtask
              /\ mtask'[c] = Reading]_vars

\* A node that never registered has published: the Master has handled its
\* __publisher_registration__ and the message that followed it on the same
\* connection, and holds no publisher.
C20_Witness ==
    \E n \in Names :
        /\ n \notin DOMAIN nodes
        /\ "temp" \in npublishers[n]
        /\ toMaster[n] = <<>>
        /\ mtask[n] = Reading
        /\ publishers = [x \in {} |-> 0]

\* C26: a transport has at most one open outbound connection per destination
\* address, and every open connection it opened is the one in its cache.
C26_SingleConnection ==
    \A a \in Remotes :
        LET open == {k \in 1 .. snd.opened[a] : Writer(a, k) \notin snd.closed}
        IN  /\ Cardinality(open) <= 1
            /\ \A k \in open : /\ a \in DOMAIN snd.clients
                                /\ snd.clients[a] = Writer(a, k)

\* The Master's read loop for connection c takes a frame of the given topic.
Handles(c, topic) ==
    /\ mtask[c].pc = "read"
    /\ toMaster[c] # <<>>
    /\ toMaster' = [toMaster EXCEPT ![c] = Tail(@)]
    /\ Head(toMaster[c]).topic = topic

\* Where the confirmations are among the frames the Master wrote to node n.
Confirms(n) ==
    {k \in 1 .. Len(toNode[n]) : toNode[n][k].topic = "__registration_confirm__"}

\* C21: handling a __registration__ with node_name N and address A makes
\* nodes[N] = A, whatever N's address was, changes no other entry of nodes and
\* nothing in publishers and subscribers, and sends one
\* __registration_confirm__, on the connection to A (a send to an address
\* where nothing listens delivers nothing).
C21_RegistrationEffect ==
    [][\A c \in Names :
          Handles(c, "__registration__") =>
              LET N == Head(toMaster[c]).data.node_name
                  A == from_string(Head(toMaster[c]).data.address)
              IN  /\ DOMAIN nodes' = DOMAIN nodes \cup {N}
                  /\ nodes'[N] = A
                  /\ \A x \in DOMAIN nodes \ {N} : nodes'[x] = nodes[x]
                  /\ publishers' = publishers
                  /\ subscribers' = subscribers
                  /\ \A n \in Names :
                         IF Listening(A) /\ n = NodeAt(A)
                         THEN /\ Len(toNode'[n]) = Len(toNode[n]) + 1
                              /\ IsPrefix(toNode[n], toNode'[n])
                              /\ toNode'[n][Len(toNode'[n])].topic
                                     = "__registration_confirm__"
                              /\ toNode'[n][Len(toNode'[n])].uid[4]
                                     = Head(toMaster[c]).uid
                         ELSE toNode'[n] = toNode[n]]_vars

\* A registered from its own address and was confirmed there; a later
\* __registration__ of A under B's address was handled and confirmed at
\* that address, and nodes["A"] is now B's address.
C21_Witness ==
    /\ "A" \in DOMAIN nodes
    /\ nodes["A"] = NodeAddress("B")
    /\ \E k \in Confirms("A") : toNode["A"][k].uid[4] = Uid("A", "register", 0, None)
    /\ \E k \in Confirms("B") : toNode["B"][k].uid[4][2] = "client"

\* C22: in every step the key set of nodes does not shrink and every list
\* of publishers and subscribers is a prefix of its next value, also when a
\* node's process ends or a send to it fails.
C22_RegistryGrowOnly ==
    [][/\ DOMAIN nodes \subseteq DOMAIN nodes'
       /\ \A t \in DOMAIN publishers :
              t \in DOMAIN publishers' /\ IsPrefix(publishers[t], publishers'[t])
       /\ \A t \in DOMAIN subscribers :
              t \in DOMAIN subscribers' /\ IsPrefix(subscribers[t], subscribers'[t])]_vars

\* B's process has ended; B is still in nodes and still has its entry in
\* subscribers["temp"], ahead of A's, and a message relayed since reached A.
C22_Witness ==
    /\ phase["B"] = "exited"
    /\ "B" \in DOMAIN nodes
    /\ "temp" \in DOMAIN subscribers
    /\ Len(subscribers["temp"]) = 2
    /\ subscribers["temp"][1][1] = "B"
    /\ subscribers["temp"][2][1] = "A"
    /\ \E k \in 1 .. Len(toNode["A"]) : toNode["A"][k].topic = "temp"

\* C30: every node name in an entry of publishers or subscribers is a key
\* of nodes.
C30_ReferentialIntegrity ==
    /\ \A t \in DOMAIN publishers : \A k \in 1 .. Len(publishers[t]) :
           publishers[t][k][1] \in DOMAIN nodes
    /\ \A t \in DOMAIN subscribers : \A k \in 1 .. Len(subscribers[t]) :
           subscribers[t][k][1] \in DOMAIN nodes

\* The Master has handled the subscription of a node it does not know,
\* next to a publisher and a subscriber that it entered.
C30_Witness ==
    /\ \E u \in Completed : disclosed[u].name \notin DOMAIN nodes
    /\ \E t \in DOMAIN publishers : publishers[t] # <<>>
    /\ \E t \in DOMAIN subscribers : subscribers[t] # <<>>

\* The entries that a step appends to list t of registry d.
Appended(d, dNext, t) ==
    {dNext[t][k] : k \in ((IF t \in DOMAIN d THEN Len(d[t]) ELSE 0) + 1) .. Len(dNext[t])}

\* Task c of the Master runs an iteration of the relay loop: the first one
\* when its read loop takes an application message, a later one when the
\* task resumes.
Relays(c) ==
    \/ mtask[c].pc = "relay" /\ mtask'[c] # mtask[c]
    \/ c \in Names /\ Handles(c, "temp")

RelayedMessage(c) ==
    IF mtask[c].pc = "relay" THEN mtask[c].msg ELSE Head(toMaster[c])

RelayIndex(c) == IF mtask[c].pc = "relay" THEN mtask[c].i ELSE 1

\* C29: an entry appended to publishers[T] or subscribers[T] holds the
\* address nodes has for the node at that moment; a __registration__ changes
\* no entry; a disclosure names the address in the publisher's entry, and a
\* relay iteration writes to the address in the subscriber's entry, whatever
\* nodes holds for that node by then.
C29_EntriesKeepAddress ==
    [][/\ \A t \in DOMAIN publishers' : \A e \in Appended(publishers, publishers', t) :
              e[1] \in DOMAIN nodes /\ e[2] = nodes[e[1]]
       /\ \A t \in DOMAIN subscribers' : \A e \in Appended(subscribers, subscribers', t) :
              e[1] \in DOMAIN nodes /\ e[2] = nodes[e[1]]
       /\ \A c \in Names :
              Handles(c, "__registration__") =>
                  publishers' = publishers /\ subscribers' = subscribers
       /\ \A n \in Names : \A k \in (Len(toNode[n]) + 1) .. Len(toNode'[n]) :
              toNode'[n][k].topic = "__publisher_info__" =>
                  LET info == toNode'[n][k].data
                  IN  \E j \in 1 .. Len(publishers[info.topic]) :
                         publishers[info.topic][j]
                             = <<info.publisher_name, from_string(info.publisher_address)>>
       /\ \A c \in Conns :
              (/\ Relays(c)
               /\ RelayedMessage(c).topic \in DOMAIN subscribers
               /\ RelayIndex(c) <= Len(subscribers[RelayedMessage(c).topic])) =>
                  LET a == subscribers[RelayedMessage(c).topic][RelayIndex(c)][2]
                  IN  \A n \in Names :
                         toNode'[n] = IF Listening(a) /\ n = NodeAt(a)
                                      THEN Append(toNode[n], RelayedMessage(c))
                                      ELSE toNode[n]]_vars

\* A subscribed while registered under its own address and then registered
\* under B's address: nodes["A"] is B's address, the entry of A still holds
\* A's own, and a message written to the Master after that registration, on
\* the same connection, was relayed to A's own address.
C29_Witness ==
    /\ "A" \in DOMAIN nodes
    /\ nodes["A"] = NodeAddress("B")
    /\ "temp" \in DOMAIN subscribers
    /\ subscribers["temp"] = <<(<<"A", NodeAddress("A")>>)>>
    /\ \E i \in 1 .. Len(toNode["A"]), j \in Confirms("B") :
          /\ toNode["A"][i].topic = "temp"
          /\ toNode["B"][j].uid[4][1] = toNode["A"][i].uid[1]
          /\ toNode["B"][j].uid[4][2] = "client"
          /\ toNode["B"][j].uid[4][3] > toNode["A"][i].uid[3]

\* The copies of message uid among the frames the Master wrote to node n.
Copies(uid, n) ==
    Cardinality({k \in 1 .. Len(toNode[n]) : toNode[n][k].uid = uid})

\* The entries with address a among the first j entries of a list.
EntriesAt(list, j, a) == Cardinality({k \in 1 .. j : list[k][2] = a})

\* Node n's address was only ever registered by n itself, from its start on:
\* every entry with that address was made while n's server was listening.
OwnAddress(n) ==
    /\ Alive(n)
    /\ \A r \in constructed :
           (r.topic = "__registration__" /\ r.data.address = AddrStr(NodeAddress(n)))
               => r.uid = Uid(n, "register", 0, None)

\* The Master ends the handling of a subscription in this step.
Completes(u) ==
    /\ u \in DOMAIN disclosed'
    /\ disclosed'[u].done
    /\ ~(u \in DOMAIN disclosed /\ disclosed[u].done)

\* C28: every subscription of a node the Master knows adds one entry to
\* subscribers[T], however many entries the node has; and a relay of a
\* message makes one send per entry: once the loop has gone through the
\* first j entries, a node has as many copies of the message as there are
\* entries with its address among them.
C28_OneCopyPerEntry ==
    /\ [][\A u \in DOMAIN disclosed' :
              (Completes(u) /\ disclosed'[u].name \in DOMAIN nodes) =>
                  CountName(subscribers'[disclosed'[u].topic], disclosed'[u].name)
                      = 1 + (IF disclosed'[u].topic \in DOMAIN subscribers
                             THEN CountName(subscribers[disclosed'[u].topic],
                                            disclosed'[u].name)
                             ELSE 0)]_vars
    /\ [](\A c \in Conns : \A n \in Names :
              (mtask[c].pc = "relay" /\ OwnAddress(n)) =>
                  Copies(mtask[c].msg.uid, n)
                      = EntriesAt(subscribers[mtask[c].msg.topic], mtask[c].i - 1,
                                  NodeAddress(n)))

\* A subscribed to "temp" twice; the relay of a message has gone through
\* both entries and A was sent two copies.
C28_Witness ==
    \E c \in Conns :
        /\ mtask[c].pc = "relay"
        /\ mtask[c].i = 3
        /\ OwnAddress("A")
        /\ subscribers["temp"] = <<(<<"A", NodeAddress("A")>>), (<<"A", NodeAddress("A")>>)>>
        /\ Copies(mtask[c].msg.uid, "A") = 2

\* The node's read loop takes a __registration_confirm__.
HandlesConfirm ==
    /\ reg.wire # <<>>
    /\ Head(reg.wire) = "__registration_confirm__"
    /\ reg'.wire = Tail(reg.wire)

\* C23: the registration signal is clear until the node has handled a
\* confirmation; it is set by handling one and by nothing else, and never
\* cleared; handling a further confirmation changes nothing in the node but
\* the frame being consumed.
C23_OneShotSignal ==
    /\ [](reg.registered <=> reg.confirms >= 1)
    /\ [][/\ reg.registered => reg'.registered
          /\ (~reg.registered /\ reg'.registered) => HandlesConfirm
          /\ (reg.registered /\ HandlesConfirm) =>
                 reg' = [reg EXCEPT !.wire = Tail(@), !.confirms = @ + 1]]_vars

\* The node has handled two confirmations, the second during its second
\* registration, and the signal is set.
C23_Witness ==
    /\ reg.registered
    /\ reg.confirms = 2
    /\ reg.calls = 2

\* The frames of connection c that its loop took and that decoded.
Decoded(c) == SelectSeq(rd.taken[c], LAMBDA f : f.payload # "garbled")

\* C24: a frame that does not decode, or whose handler or callback raises,
\* is the only one dropped: on every connection the handler has been run on
\* every decodable frame the loop took, in order, whatever happened to the
\* frames before it and on the other connection, and a loop ends only when
\* its connection is dead or the transport was stopped.
C24_BadFrameIsolation ==
    \A c \in LoopConns :
        /\ Len(rd.handled[c]) = Len(Decoded(c)) - (IF rd.pc[c] = "handler" THEN 1 ELSE 0)
        /\ \A k \in 1 .. Len(rd.handled[c]) :
               rd.handled[c][k].topic = Decoded(c)[k].payload
        /\ rd.pc[c] = "closed" => (rd.socket[c] = "eof" \/ ~rd.running)

\* On one connection, still open and read by a running transport, a frame
\* that did not decode and a message whose handler raised were followed by
\* a message of another topic, whose callback returned, while the other
\* connection has failed.
C24_Witness ==
    \E c \in LoopConns :
        /\ rd.running /\ rd.socket[c] = "open" /\ rd.pc[c] = "read"
        /\ \E d \in LoopConns : rd.socket[d] = "reset" /\ rd.lap[d] = 1
        /\ Len(rd.taken[c]) = 3
        /\ rd.taken[c][1].payload = "garbled"
        /\ Len(rd.handled[c]) = 2
        /\ rd.handled[c][1].outcome = "handler raised"
        /\ rd.handled[c][2].outcome = "returned"
        /\ rd.handled[c][2].topic # rd.handled[c][1].topic

\* C25: a read loop whose connection is closed or has failed, or whose
\* transport was stopped, eventually ends and closes its connection.
C25_ReadLoopsTerminate ==
    \A c \in LoopConns :
        (rd.socket[c] # "open" \/ ~rd.running) ~> (rd.pc[c] = "closed")

\* The place of the frame of call k among the frames the peers handled
\* (0: not handled).
HandledAt(k) ==
    IF \E i \in 1 .. Len(snd.got) : snd.got[i] = k
    THEN CHOOSE i \in 1 .. Len(snd.got) : snd.got[i] = k
    ELSE 0

\* C27: the frames that one task of the Master sends to one address, one
\* call after the other (the read loop of a publisher's connection relaying
\* m1, then m2, to a subscriber's address), are handled by the node at the
\* address in the order of the calls, whatever the other tasks send and
\* whenever the connections are established.
C27_RelayOrder ==
    \A i \in 1 .. Len(snd.log), j \in 1 .. Len(snd.log) :
        (/\ snd.log[i].task = snd.log[j].task
         /\ snd.log[i].call < snd.log[j].call
         /\ snd.log[i].dest \in Remotes
         /\ snd.log[i].dest = snd.log[j].dest
         /\ HandledAt(snd.log[i].call) > 0
         /\ HandledAt(snd.log[j].call) > 0)
        => HandledAt(snd.log[i].call) < HandledAt(snd.log[j].call)

\* The send of a __publisher_registration__ by the call of some task returns
\* False.
RegistrationFails ==
    \E t \in ApiTasks :
        /\ api.task[t].pc = "register"
        /\ api'.sends = Append(api.sends,
                               [call |-> api.task[t].call,
                                kind |-> "__publisher_registration__",
                                dest |-> MasterName, ok |-> FALSE,
                                handler |-> ApiTopic \in api.subscribers])

\* A call of publish starts.
PublishStarts ==
    \E t \in ApiTasks :
        /\ api.task[t].pc = "idle" /\ api'.task[t].pc # "idle"
        /\ api'.task[t].op = "publish"

\* C31: a message of the topic is handed to send_message, for the Master or
\* for a direct subscriber, only after a __publisher_registration__ for the
\* topic was sent with success to the same destination as the message to
\* the Master, self.master_address, by a send that returned before the
\* message's did, and the topic is marked only then; a call whose
\* registration send fails ends with ConnectionError, sends no message and
\* leaves the topic unmarked, and a publish that starts while the topic is
\* unmarked sends the registration first.
C31_RegistrationPrecedesData ==
    /\ [](/\ \A k \in 1 .. Len(api.sends) :
               api.sends[k].kind = ApiTopic =>
                   \E j \in 1 .. (k - 1) :
                       /\ api.sends[j].kind = "__publisher_registration__"
                       /\ api.sends[j].dest = MasterName
                       /\ api.sends[j].ok
          /\ ApiTopic \in api.publishers =>
                \E j \in 1 .. Len(api.sends) :
                    /\ api.sends[j].kind = "__publisher_registration__"
                    /\ api.sends[j].ok
          /\ \A j \in 1 .. Len(api.sends) :
                (api.sends[j].kind = "__publisher_registration__" /\ ~api.sends[j].ok) =>
                    /\ \E d \in 1 .. Len(api.done) :
                          /\ api.done[d].call = api.sends[j].call
                          /\ api.done[d].outcome = "ConnectionError"
                    /\ \A k \in 1 .. Len(api.sends) :
                          api.sends[k].call = api.sends[j].call => k = j)
    /\ [][/\ RegistrationFails => api'.publishers = api.publishers
          /\ (PublishStarts /\ ApiTopic \notin api.publishers) =>
                \E t \in ApiTasks : api.task[t].pc = "idle" /\ api'.task[t].pc = "register"]_vars

\* A publish whose registration send failed ended with ConnectionError; the
\* next publish sent the registration, with success, and then the message
\* to the Master and to a direct subscriber.
C31_Witness ==
    /\ Len(api.sends) = 4
    /\ api.sends[1].kind = "__publisher_registration__" /\ ~api.sends[1].ok
    /\ api.sends[2].kind = "__publisher_registration__" /\ api.sends[2].ok
    /\ api.sends[2].call > api.sends[1].call
    /\ api.sends[3].kind = ApiTopic /\ api.sends[3].dest = MasterName
    /\ api.sends[3].call = api.sends[2].call
    /\ api.sends[4].kind = ApiTopic /\ api.sends[4].dest # MasterName
    /\ \E d \in 1 .. Len(api.done) :
          api.done[d].call = api.sends[1].call /\ api.done[d].outcome = "ConnectionError"

====
